---- MODULE Spec2Model ----
(***************************************************************************)
(* The rotating file sink of flexi_logger: State (state.rs) with its       *)
(* rotation policy, rename protocol, retention pass and cleanup thread,    *)
(* built for linux/windows (get_creation_date is the wall clock) and with  *)
(* the "compress" feature.                                                 *)
(*                                                                         *)
(* The directory is modelled with inodes: a name maps to an inode, a file  *)
(* handle holds an inode, rename moves a name and leaves handles alone.    *)
(* A file's content is the sequence of the ids of the records in it; the   *)
(* length in bytes of record i is lens[i].                                 *)
(***************************************************************************)
EXTENDS Integers, Sequences, FiniteSets, TLC

\* ---------------------------------------------------------------- bounds
MaxRecs == 4        \* records written in one behaviour
MaxRecLen == 2      \* a record is 1..MaxRecLen bytes long
MaxTime == 1        \* the clock runs over the seconds 0..MaxTime
MaxFaults == 1      \* I/O errors the environment injects in one behaviour
MaxSinks == 4       \* sink lifetimes (State::try_new) in one behaviour
MaxShutdowns == 2   \* calls of shutdown in a row, with no write between them
MaxFmtLen == 2      \* bytes a format function writes for one record
MaxCalls == 2       \* calls of write_buffered in one behaviour
MaxHours == 48      \* the clock of the EveryNewDay check runs over 0..MaxHours
MaxChecks == 2      \* checks of the EveryNewDay criterion by one sink
SharingSinks == 2   \* sinks that share one EveryNewDay value
MaxClock == 4       \* the clock of a DeferredNow runs over the seconds 0..MaxClock
MaxReads == 3       \* calls of now() and format() on one DeferredNow
MaxOpens == 4       \* files that open_log_file opens in one behaviour
MaxDiscr == 3       \* discriminants of the FileSpecs a sink is built or reset with
MaxOffset == 9      \* the local time zone is 0..MaxOffset whole hours ahead of UTC
MaxWrites == 3            \* the writes of a sink whose rotation may fail

\* ------------------------------------------------------ program constants
SizeLimit == 1          \* Criterion::Size(max) of the configurations checked
BufCapacity == 2        \* write_mode.buffersize() of the buffered configurations
FixedOffset == 8        \* offset!(+8), state.rs:294 and state.rs:336

\* ------------------------------------------------------------ file names
\* A file name of the FileSpec, by its infix and extension:
\*   k = "cur"           ..._rCURRENT.log
\*   k = "num", n        ..._r{n:05}.log
\*   k = "ts", n, off    ..._r{date and time of second n at offset off}{+off}.log
\*                       with rs >= 0: ...{+off}.restart-{rs:04}.log
\*   gz                  the name with extension "log" replaced by "log.gz"
MkName(k, n, off, rs, gz) == [k |-> k, n |-> n, off |-> off, rs |-> rs, gz |-> gz]

CURRENT_INFIX == MkName("cur", 0, 0, -1, FALSE)

NoName == MkName("none", 0, 0, -1, FALSE)

number_infix(idx) == MkName("num", idx, 0, -1, FALSE)

\* The calendar fields (date and time of day, as one number of seconds) that an
\* OffsetDateTime for the instant shows after to_offset(off): off whole hours
\* ahead of UTC.
to_offset(instant, off) == instant + off * 3600

\* creation_date.format(&TS): the calendar fields of the instant at its offset,
\* followed by the offset hour with its sign.
TsInfix(instant, off) == MkName("ts", to_offset(instant, off), off, -1, FALSE)

\* format.add(".restart-{:04}")
WithRestart(name, number) == [name EXCEPT !.rs = number]

\* compressed_file.set_extension("log.gz")
set_extension_log_gz(name) == [name EXCEPT !.gz = TRUE]

\* Byte order of two file names with the same extension (glob yields paths in
\* this order, Vec<PathBuf>::sort_unstable sorts by it): numbers are zero-padded,
\* timestamps compare as digits, then the offset hour, and "log" sorts before
\* "restart-NNNN".
NameLess(a, b) ==
    \/ a.n < b.n
    \/ a.n = b.n /\ a.off < b.off
    \/ a.n = b.n /\ a.off = b.off /\ a.rs < b.rs
    \/ a.n = b.n /\ a.off = b.off /\ a.rs = b.rs /\ ~a.gz /\ b.gz

RECURSIVE SortDesc(_)
SortDesc(S) ==
    IF S = {} THEN <<>>
    ELSE LET m == CHOOSE x \in S : \A y \in S \ {x} : NameLess(y, x)
         IN <<m>> \o SortDesc(S \ {m})

\* ----------------------------------------------------------- file system
\* fs = [dir |-> name -> inode, data |-> inode -> content]; a content is
\* [gz, recs]: the records of the file, plain or in compressed form.
Plain(recs) == [gz |-> FALSE, recs |-> recs]
Exists(fs, name) == name \in DOMAIN fs.dir

Unlink(fs, name) ==
    [fs EXCEPT !.dir = [x \in (DOMAIN fs.dir) \ {name} |-> fs.dir[x]]]

\* std::fs::rename: the target name, if in use, is replaced.
Rename(fs, src, dst) ==
    [fs EXCEPT !.dir = [x \in ((DOMAIN fs.dir) \ {src}) \cup {dst} |->
                            IF x = dst THEN fs.dir[src] ELSE fs.dir[x]]]

\* A new inode under the given name.
Create(fs, name, content) ==
    [dir |-> [x \in (DOMAIN fs.dir) \cup {name} |->
                 IF x = name THEN Len(fs.data) + 1 ELSE fs.dir[x]],
     data |-> Append(fs.data, content)]

\* A faulty variant of the next, for comparison: it truncates with append too.
OpenFileTruncating(fs, name, append) ==
    IF ~Exists(fs, name) THEN Create(fs, name, Plain(<<>>))
    ELSE [fs EXCEPT !.data[fs.dir[name]] = Plain(<<>>)]

\* OpenOptions.write(true).create(true).append(a).truncate(!a).open(name)
OpenFile(fs, name, append) ==
    IF ~Exists(fs, name) THEN Create(fs, name, Plain(<<>>))
    ELSE IF append THEN fs
    ELSE [fs EXCEPT !.data[fs.dir[name]] = Plain(<<>>)]

\* File::create(name) followed by the copy of the content
CreateWith(fs, name, content) ==
    IF ~Exists(fs, name) THEN Create(fs, name, content)
    ELSE [fs EXCEPT !.data[fs.dir[name]] = content]

WriteTo(fs, ino, recs) == [fs EXCEPT !.data[ino].recs = @ \o recs]

\* ------------------------------------------------------------- utilities
RECURSIVE Bytes(_, _)
Bytes(ls, recs) ==
    IF recs = <<>> THEN 0 ELSE ls[Head(recs)] + Bytes(ls, Tail(recs))

Rotated(fs) == {x \in DOMAIN fs.dir : x.k \in {"num", "ts"}}

\* IdxState
Start == [tag |-> "Start", idx |-> 0]
Idx(k) == [tag |-> "Idx", idx |-> k]

\* NamingState::CreatedAt; NamingState::IdxState(i) is the IdxState i itself.
CreatedAt == [tag |-> "CreatedAt", idx |-> 0]

\* ------------------------------------------------- listing and retention
\* A faulty variant of the next, for comparison: the pattern "_r*" lets
\* _rCURRENT in, which the reversed byte order puts first.
ListOfFilesWithCurrent(fs, gz) ==
    (IF ~gz /\ CURRENT_INFIX \in DOMAIN fs.dir THEN <<CURRENT_INFIX>> ELSE << >>)
        \o SortDesc({x \in Rotated(fs) : x.gz = gz})

\* list_of_files(pattern): the glob's paths, reversed.
list_of_files(fs, gz) == SortDesc({x \in Rotated(fs) : x.gz = gz})

\* A faulty variant of the next, for comparison: the compressed files first.
ListCompressedFirst(fs) ==
    list_of_files(fs, TRUE) \o list_of_files(fs, FALSE)

\* The pattern "_r[0-9]*" leaves _rCURRENT out. No step of the sink creates a
\* ".zip" file, so the third list of the chain is empty.
list_of_log_and_compressed_files(fs) ==
    list_of_files(fs, FALSE) \o list_of_files(fs, TRUE)

\* next.parse().unwrap_or(0) on the text after the last "_r" of the file stem:
\* the stem of a compressed file ends with ".log", which is not a number.
ParseIdx(name) == IF name.k = "num" /\ ~name.gz THEN name.n ELSE 0

RECURSIVE HighestIdx(_, _)
HighestIdx(files, highest_idx) ==
    IF files = <<>> THEN highest_idx
    ELSE LET idx == ParseIdx(Head(files))
         IN HighestIdx(Tail(files),
                       IF highest_idx.tag = "Start" THEN Idx(idx)
                       ELSE Idx(IF highest_idx.idx > idx THEN highest_idx.idx ELSE idx))

get_highest_rotate_idx(fs) ==
    HighestIdx(list_of_log_and_compressed_files(fs), Start)

\* The body of the loop of remove_or_compress_too_old_logfiles_impl for one
\* entry of the list: [ok, fs]; an error ends the pass.
CleanupEntry(fs, file, index, log_limit, compress_limit) ==
    IF index >= log_limit + compress_limit
    THEN IF Exists(fs, file) THEN [ok |-> TRUE, fs |-> Unlink(fs, file)]
         ELSE [ok |-> FALSE, fs |-> fs]
    ELSE IF index >= log_limit /\ ~file.gz
    THEN IF Exists(fs, file)
         THEN [ok |-> TRUE,
               fs |-> Unlink(CreateWith(fs, set_extension_log_gz(file),
                                        [gz |-> TRUE, recs |-> fs.data[fs.dir[file]].recs]),
                             file)]
         ELSE [ok |-> FALSE, fs |-> fs]
    ELSE [ok |-> TRUE, fs |-> fs]

RECURSIVE CleanupLoop(_, _, _, _, _)
CleanupLoop(fs, files, index, log_limit, compress_limit) ==
    IF index >= Len(files) THEN [ok |-> TRUE, fs |-> fs]
    ELSE LET r == CleanupEntry(fs, files[index + 1], index, log_limit, compress_limit)
         IN IF r.ok THEN CleanupLoop(r.fs, files, index + 1, log_limit, compress_limit)
            ELSE r

\* cleanup = [do, L, Z]: Never is do = FALSE; KeepLogFiles(n) is (n, 0),
\* KeepCompressedFiles(n) is (0, n), KeepLogAndCompressedFiles(l, z) is (l, z).
remove_or_compress_too_old_logfiles_impl(cleanup, fs) ==
    IF ~cleanup.do THEN [ok |-> TRUE, fs |-> fs]
    ELSE CleanupLoop(fs, list_of_log_and_compressed_files(fs), 0, cleanup.L, cleanup.Z)

\* The entry at position index of the list makes the pass call the file
\* system: remove_file (state.rs:583), or the compression (state.rs:586-601).
EntryActs(file, index, log_limit, compress_limit) ==
    \/ index >= log_limit + compress_limit
    \/ index >= log_limit /\ ~file.gz

PassActs(cleanup, list) ==
    /\ cleanup.do
    /\ \E k \in 1..Len(list) : EntryActs(list[k], k - 1, cleanup.L, cleanup.Z)

\* A pass run inline; with fail its first call of the file system returns an
\* error, which ends the pass (the `?` of state.rs:583-600).
InlinePass(cleanup, fs, fail) ==
    IF fail /\ PassActs(cleanup, list_of_log_and_compressed_files(fs))
    THEN [ok |-> FALSE, fs |-> fs]
    ELSE remove_or_compress_too_old_logfiles_impl(cleanup, fs)

\* What a retention pass that starts on fs works on: the files of its list
\* with their contents at that moment; ran tells a pass from none.
NotListed == [ran |-> FALSE, files |-> << >>]

ListedFiles(fs, list) ==
    [k \in 1..Len(list) |-> [name |-> list[k], content |-> fs.data[fs.dir[list[k]]]]]

Listing(cleanup, fs) ==
    IF ~cleanup.do THEN NotListed
    ELSE [ran |-> TRUE,
          files |-> ListedFiles(fs, list_of_log_and_compressed_files(fs))]

\* The files that a pass which listed `listed` removes with remove_file
\* (state.rs:582-586): those from position log_limit + compress_limit on; ok is
\* the result of the pass, and a pass that failed has removed none.
PassRemoves(cleanup, listed, ok) ==
    IF listed.ran /\ ok
    THEN Cardinality({k \in 1..Len(listed.files) : k - 1 >= cleanup.L + cleanup.Z})
    ELSE 0

\* ---------------------------------------------------------------- rename
\* A result of a rotation: [ok, panic, fs, renamed, naming_state]; renamed is
\* the name _rCURRENT was renamed to, NoName if it was not renamed.
RotResult(ok, panic, fs, renamed, naming_state) ==
    [ok |-> ok, panic |-> panic, fs |-> fs, renamed |-> renamed,
     naming_state |-> naming_state]

\* std::fs::rename(current, rotated_path) and the match on its result; fail is
\* an error other than NotFound. to is the naming state after a rename, from
\* the one if there was nothing to rename.
\* A faulty variant first, for comparison: NotFound consumes the index too.
RenameCurrentConsuming(fs, rotated_path, fail, from, to) ==
    IF fail THEN RotResult(FALSE, FALSE, fs, NoName, from)
    ELSE IF ~Exists(fs, CURRENT_INFIX) THEN RotResult(TRUE, FALSE, fs, NoName, to)
    ELSE RotResult(TRUE, FALSE, Rename(fs, CURRENT_INFIX, rotated_path),
                   rotated_path, to)

\* A faulty variant of the next, for comparison: the rename never fails.
RenameCurrentUnfailing(fs, rotated_path, fail, from, to) ==
    IF ~Exists(fs, CURRENT_INFIX) THEN RotResult(TRUE, FALSE, fs, NoName, from)
    ELSE RotResult(TRUE, FALSE, Rename(fs, CURRENT_INFIX, rotated_path),
                   rotated_path, to)

\* state.rs:669-677 and state.rs:691-704
RenameCurrent(fs, rotated_path, fail, from, to) ==
    IF fail THEN RotResult(FALSE, FALSE, fs, NoName, from)
    ELSE IF ~Exists(fs, CURRENT_INFIX) THEN RotResult(TRUE, FALSE, fs, NoName, from)
    ELSE RotResult(TRUE, FALSE, Rename(fs, CURRENT_INFIX, rotated_path),
                   rotated_path, to)

\* A faulty new_idx, for comparison: it leaves an index out.
NewIdxSkipping(idx_state) == IF idx_state.tag = "Start" THEN 0 ELSE idx_state.idx + 2

\* state.rs:686-689
NewIdx(idx_state) == IF idx_state.tag = "Start" THEN 0 ELSE idx_state.idx + 1

rotate_output_file_to_idx(idx_state, fs, fail) ==
    RenameCurrent(fs, number_infix(NewIdx(idx_state)), fail,
                  idx_state, Idx(NewIdx(idx_state)))

\* The glob "<rotated_path without extension>.restart-*": the restart siblings
\* of the timestamp, compressed ones included.
RestartSiblings(fs, rotated_path) ==
    {x \in Rotated(fs) : x.k = "ts" /\ x.n = rotated_path.n
                         /\ x.off = rotated_path.off /\ x.rs >= 0}

\* vec.sort_unstable(); vec.pop()
Highest(vec) == CHOOSE x \in vec : \A y \in vec \ {x} : NameLess(y, x)

\* while rotated_path.exists() { rotated_path = ...restart-{number}; number += 1 }
RECURSIVE FreeRestart(_, _, _)
FreeRestart(fs, base, number) ==
    IF Exists(fs, WithRestart(base, number)) THEN FreeRestart(fs, base, number + 1)
    ELSE WithRestart(base, number)

\* A faulty variant of the next, for comparison: it never looks for a free
\* restart name.
RestartTargetReusing(fs, rotated_path, vec) == rotated_path

\* The path chosen by state.rs:642-665.
RestartTarget(fs, rotated_path, vec) ==
    IF Exists(fs, rotated_path) \/ vec # {}
    THEN FreeRestart(fs, rotated_path, IF vec = {} THEN 0 ELSE Highest(vec).rs)
    ELSE rotated_path

\* The stem of a compressed sibling ends with ".log", so the
\* parse::<usize>().unwrap() of state.rs:653 panics on it.
RotateToDate(fs, rotated_path, vec, fail) ==
    IF vec # {} /\ Highest(vec).gz
    THEN RotResult(FALSE, TRUE, fs, NoName, CreatedAt)
    ELSE RenameCurrent(fs, RestartTarget(fs, rotated_path, vec), fail,
                       CreatedAt,
                       CreatedAt)

\* creation_date = [instant, off]
rotate_output_file_to_date(creation_date, fs, fail) ==
    RotateToDate(fs, TsInfix(creation_date.instant, creation_date.off),
                 RestartSiblings(fs, TsInfix(creation_date.instant, creation_date.off)),
                 fail)

\* ------------------------------------------------------------------ open
\* open_log_file(config, true): [ok, fs, ino]; the creation date it returns is
\* get_fake_creation_date(), the clock.
open_log_file(fs, append, fail) ==
    IF fail THEN [ok |-> FALSE, fs |-> fs, ino |-> 0]
    ELSE LET f == OpenFile(fs, CURRENT_INFIX, append)
         IN [ok |-> TRUE, fs |-> f, ino |-> f.dir[CURRENT_INFIX]]

\* ---------------------------------------------------------------- writer
\* Box<dyn Write>: a File (direct) or a BufWriter over it; w = [ino, buf].
NoWriter == [ino |-> 0, buf |-> <<>>]

\* A faulty variant of the next, for comparison: the buffer is thrown away.
FlushWriterLosing(fs, w) == fs

\* BufWriter::flush / drop
FlushWriter(fs, w) == IF w.ino = 0 THEN fs ELSE WriteTo(fs, w.ino, w.buf)

\* write_all(buf) for one record: [fs, w]
WriteAll(fs, w, ls, buffered, rec) ==
    IF ~buffered THEN [fs |-> WriteTo(fs, w.ino, <<rec>>), w |-> w]
    ELSE LET spill == Bytes(ls, w.buf) + ls[rec] > BufCapacity
             fs1 == IF spill THEN WriteTo(fs, w.ino, w.buf) ELSE fs
             buf1 == IF spill THEN <<>> ELSE w.buf
         IN IF ls[rec] >= BufCapacity
            THEN [fs |-> WriteTo(fs1, w.ino, <<rec>>), w |-> [w EXCEPT !.buf = buf1]]
            ELSE [fs |-> fs1, w |-> [w EXCEPT !.buf = Append(buf1, rec)]]

\* ----------------------------------------------------------------- state
VARIABLES
    cfg,        \* Config and RotationConfig of the sink, fixed in a behaviour
    now,        \* the clock: the current second, as an instant
    dir,        \* the directory: file name -> inode
    data,       \* inode -> content
    inner,      \* "Initial" or "Active"
    rot,        \* RotationState, when Active
    file,       \* the writer of Inner::Active
    chan,       \* the channel to the cleanup thread
    worker,     \* the cleanup thread: [pc, list, index]
    mainpc,     \* "ready", "joining" (in shutdown), "dropping" (in drop), "panicked"
    lens,       \* history: the length of every record written so far
    produced,   \* history: the rotated names this sink has renamed _rCURRENT to
    cuts,       \* history: the records written first after a completed rotation
    ref,        \* history: one uninterrupted sink that is given the same records
    last,       \* history: what the latest call of the sink did
    counts,     \* history: [faults, sinks, shutdowns]: the I/O errors injected,
                \* the sinks built, and the calls of shutdown that returned
                \* since this sink was built or last written to
    wb,         \* util::write_buffered: the sink w it writes to, the diagnostic
                \* channel, and history: the calls made and what the latest did
    agecheck,   \* age_rotation_necessary for Age::Day, Hour, Minute, Second: the
                \* age, the instants the file was created and the check is made
                \* at, the local utc offset, and the result once it is made
    dnow,       \* one DeferredNow value: the clock, the Option it holds, and
                \* history: what every now() and format() on it returned
    mount,      \* mount_next_linewriter_if_necessary step by step: the position
                \* in write_buffer, the files open for writing, the writer of the
                \* State and the one just opened, and the size counter
    flw,        \* a FileLogWriter that is reset: its configuration, its State,
                \* the file its writer is open on, the records in each file, and
                \* history: the latest call and whether a reset was refused
    newday,     \* one SplitAtEveryNewDay value and the sinks that hold a clone of
                \* it: the clock, the shared day number, each sink's position in
                \* the check, and history: the result of every check
    pend        \* a sink whose rotations may fail: its criterion, the clock, the
                \* roll state, created_at and the day number, the file of its
                \* writer, and history: what the latest write_buffer did

\* The state of the file sink, and the state of the components beside it.
sinkvars == <<cfg, now, dir, data, inner, rot, file, chan, worker, mainpc,
          lens, produced, cuts, ref, last, counts>>

units == <<wb, newday, agecheck, dnow, mount, flw, pend>>

vars == <<sinkvars, units>>

NoRot == [naming_state |-> CreatedAt, current_size |-> 0,
          created_at |-> [instant |-> 0, off |-> 0], handle |-> FALSE]

NoWorker == [pc |-> "none", list |-> <<>>, index |-> 0]

\* What one call of write_buffer did:
\*   ok           the call returned Ok
\*   init         it ran initialize;  discovered: what get_highest_rotate_idx gave
\*   siblings     the rotated files that existed when the call began
\*   initMissing  initialize tried to rotate and _rCURRENT did not exist
\*   initRenamed  the name initialize renamed _rCURRENT to, or NoName
\*   prev         the content _rCURRENT had before the call (NoContent if none)
\*   attempted    rotation_necessary() held;  size: the current_size it read
\*   missing      _rCURRENT did not exist when that rotation was attempted
\*   renamed      the name that rotation renamed _rCURRENT to, or NoName
\*   reopened     that rotation opened a new _rCURRENT
\*   before/after the naming state before and after that rotation
\*   old          the inode of the writer before the call (0 if none)
\*   buf          the records in the buffer of that writer before the call
\*   fault        the I/O error injected into the call
\*   removed      the files the retention passes the call ran inline removed
\*   listed       what the retention pass the call ran inline last listed, if
\*                the call did nothing to the directory after it
NoContent == [gz |-> TRUE, recs |-> <<>>]

NoLast == [op |-> "none", ok |-> TRUE, init |-> FALSE, discovered |-> CreatedAt,
           siblings |-> {},
           initMissing |-> FALSE, initRenamed |-> NoName, prev |-> NoContent,
           attempted |-> FALSE, size |-> 0, missing |-> FALSE, renamed |-> NoName,
           reopened |-> FALSE, before |-> CreatedAt, after |-> CreatedAt,
           old |-> 0, buf |-> << >>, fault |-> "none", listed |-> NotListed,
           removed |-> 0]

\* A configuration: the naming ("Timestamps" carries its utc offset tsoff),
\* append, the cleanup [do, L, Z] (Never is do = FALSE) and whether it runs in
\* the background thread, a buffering write mode or not, the criterion
\* (Size(SizeLimit), Age(Age::Second) or AgeOrSize of the two), and the utc
\* offset of the local time zone.
Cfg(naming, tsoff, append, do, L, Z, bg, buffered, criterion) ==
    [naming |-> naming, tsoff |-> tsoff, append |-> append,
     cleanup |-> [do |-> do, L |-> L, Z |-> Z], bg |-> bg, buffered |-> buffered,
     criterion |-> criterion, local |-> FixedOffset]

\* The configurations checked.
Configs ==
    {Cfg("Numbers", 0, FALSE, FALSE, 0, 0, FALSE, FALSE, "Size"),
     Cfg("Numbers", 0, TRUE, FALSE, 0, 0, FALSE, TRUE, "Size"),
     Cfg("Numbers", 0, FALSE, TRUE, 0, 1, FALSE, FALSE, "Size"),
     Cfg("Numbers", 0, TRUE, TRUE, 1, 1, TRUE, TRUE, "Size"),
     Cfg("Numbers", 0, TRUE, FALSE, 0, 0, FALSE, FALSE, "AgeOrSize"),
     Cfg("Timestamps", FixedOffset, FALSE, FALSE, 0, 0, FALSE, FALSE, "Size"),
     Cfg("Timestamps", FixedOffset + 1, FALSE, TRUE, 1, 0, FALSE, TRUE, "Size"),
     Cfg("Timestamps", FixedOffset, TRUE, TRUE, 0, 1, TRUE, FALSE, "Size")}

Faults == {"none", "init_rename", "init_open", "init_metadata", "init_cleanup",
           "init_spawn", "rot_rename", "rot_open", "rot_cleanup"}

\* ---------------------------------------------------------- rotation policy
\* A faulty variant first, for comparison: it rotates at the limit already.
SizeRotationAtLimit(max_size, current_size) == current_size >= max_size

size_rotation_necessary(max_size, current_size) == current_size > max_size

\* Age::Second: some calendar field of created_at differs from that of
\* now_local_or_utc(), each read at its own offset.
age_rotation_necessary(created_at, t) ==
    to_offset(created_at.instant, created_at.off) # to_offset(t, cfg.local)

rotation_necessary(rs, t) ==
    CASE cfg.criterion = "Size" -> size_rotation_necessary(SizeLimit, rs.current_size)
      [] cfg.criterion = "Age" -> age_rotation_necessary(rs.created_at, t)
      [] OTHER -> \/ size_rotation_necessary(SizeLimit, rs.current_size)
                  \/ age_rotation_necessary(rs.created_at, t)

\* A faulty variant of the next, for comparison: the size counter starts at 0.
TryRollStateEmpty(fs, ls) == 0

\* try_roll_state_from_criterion: the current_size of the roll state
try_roll_state_from_criterion(fs, ls) ==
    IF cfg.criterion = "Age" THEN 0
    ELSE IF cfg.append THEN Bytes(ls, fs.data[fs.dir[CURRENT_INFIX]].recs)
    ELSE 0

\* The match on the naming state, state.rs:325-332 and state.rs:232-252.
Rotate(naming_state, creation_date, fs, fail) ==
    IF naming_state.tag = "CreatedAt"
    THEN rotate_output_file_to_date(creation_date, fs, fail)
    ELSE rotate_output_file_to_idx(naming_state, fs, fail)


\* ------------------------------------------------------------ initialize
\* A result of State::initialize: [ok, panic, fs, rot, file, renamed,
\* discovered, listed]; with ok the State becomes Inner::Active(rot, file);
\* listed is what the retention pass at startup listed.
InitResult(ok, panic, fs, rs, w, renamed, discovered, listed) ==
    [ok |-> ok, panic |-> panic, fs |-> fs, rot |-> rs, file |-> w,
     renamed |-> renamed, discovered |-> discovered, listed |-> listed]

\* state.rs:260-299: the cleanup at startup, c its result, the spawn of the
\* cleanup thread, which may fail (state.rs:275-283), and the Active state
Initialized(t, ls, fault, discovered, r, o, c) ==
    IF ~c.ok \/ (fault = "init_spawn" /\ cfg.cleanup.do /\ cfg.bg)
    THEN InitResult(FALSE, FALSE, c.fs, NoRot, NoWriter, r.renamed, discovered,
                    Listing(cfg.cleanup, o.fs))
    ELSE InitResult(TRUE, FALSE, c.fs,
                    [naming_state |-> r.naming_state,
                     current_size |-> try_roll_state_from_criterion(o.fs, ls),
                     created_at |-> [instant |-> t, off |-> FixedOffset],
                     handle |-> cfg.cleanup.do /\ cfg.bg],
                    [ino |-> o.ino, buf |-> << >>], r.renamed, discovered,
                    Listing(cfg.cleanup, o.fs))

\* state.rs:253-259: o is the result of open_log_file; the metadata of the
\* file are read for a size with append (state.rs:170-182), which may fail
InitOpened(t, ls, fault, discovered, r, o) ==
    IF ~o.ok \/ (fault = "init_metadata" /\ cfg.append /\ cfg.criterion # "Age")
    THEN InitResult(FALSE, FALSE, o.fs, NoRot, NoWriter, r.renamed, discovered,
                    NotListed)
    ELSE Initialized(t, ls, fault, discovered, r, o,
                     InlinePass(cfg.cleanup, o.fs, fault = "init_cleanup"))

\* state.rs:232-253: r is the result of the rotation at startup
InitRotated(t, ls, fault, discovered, r) ==
    IF ~r.ok THEN InitResult(FALSE, r.panic, r.fs, NoRot, NoWriter, r.renamed, discovered,
                             NotListed)
    ELSE InitOpened(t, ls, fault, discovered, r,
                    open_log_file(r.fs, cfg.append, fault = "init_open"))

InitNaming(fs, t, ls, fault, discovered) ==
    InitRotated(t, ls, fault, discovered,
                IF cfg.append THEN RotResult(TRUE, FALSE, fs, NoName, discovered)
                ELSE Rotate(discovered, [instant |-> t, off |-> cfg.tsoff], fs,
                            fault = "init_rename"))

\* State::initialize with a RotationConfig, at the second t
Initialize(fs, t, ls, fault) ==
    InitNaming(fs, t, ls, fault,
               IF cfg.naming = "Numbers" THEN get_highest_rotate_idx(fs) ELSE CreatedAt)

\* ------------------------------------------ mount_next_linewriter_if_necessary
\* A result of mount_next_linewriter_if_necessary: [ok, panic, fs, rot, file,
\* act, attempted, renamed, reopened, listed]; act: an Act message is sent to
\* the cleanup thread; listed is what the inline retention pass listed.
MountResult(ok, panic, fs, rs, w, act, attempted, renamed, reopened, listed) ==
    [ok |-> ok, panic |-> panic, fs |-> fs, rot |-> rs, file |-> w, act |-> act,
     attempted |-> attempted, renamed |-> renamed, reopened |-> reopened,
     listed |-> listed]

\* state.rs:343-347: remove_or_compress_too_old_logfiles inline, c its result
MountCleaned(rs, w, renamed, c, listed) ==
    MountResult(c.ok, FALSE, c.fs, rs, w, FALSE, TRUE, renamed, TRUE, listed)

\* state.rs:334-347: o is the result of open_log_file; the assignment to *file
\* drops the old writer, which flushes it.
MountOpened(rs, w, t, fault, r, o) ==
    IF ~o.ok
    THEN MountResult(FALSE, FALSE, o.fs, [rs EXCEPT !.naming_state = r.naming_state],
                     w, FALSE, TRUE, r.renamed, FALSE, NotListed)
    ELSE IF rs.handle
    THEN MountResult(TRUE, FALSE, FlushWriter(o.fs, w),
                     [rs EXCEPT !.naming_state = r.naming_state,
                                !.created_at = [instant |-> t, off |-> FixedOffset],
                                !.current_size = 0],
                     [ino |-> o.ino, buf |-> << >>], TRUE, TRUE, r.renamed, TRUE,
                     NotListed)
    ELSE MountCleaned([rs EXCEPT !.naming_state = r.naming_state,
                                 !.created_at = [instant |-> t, off |-> FixedOffset],
                                 !.current_size = 0],
                      [ino |-> o.ino, buf |-> << >>], r.renamed,
                      InlinePass(cfg.cleanup, FlushWriter(o.fs, w),
                                 fault = "rot_cleanup"),
                      Listing(cfg.cleanup, FlushWriter(o.fs, w)))

\* state.rs:325-334: r is the result of the rotation
MountRotated(rs, w, t, fault, r) ==
    IF ~r.ok
    THEN MountResult(FALSE, r.panic, r.fs, rs, w, FALSE, TRUE, r.renamed, FALSE,
                     NotListed)
    ELSE MountOpened(rs, w, t, fault, r,
                     open_log_file(r.fs, cfg.append, fault = "rot_open"))

mount_next_linewriter_if_necessary(fs, rs, w, t, fault) ==
    IF ~rotation_necessary(rs, t)
    THEN MountResult(TRUE, FALSE, fs, rs, w, FALSE, FALSE, NoName, FALSE, NotListed)
    ELSE MountRotated(rs, w, t, fault,
                      Rotate(rs.naming_state, rs.created_at, fs, fault = "rot_rename"))

\* ------------------------------------------------- the uninterrupted sink
\* The sink with append that is never dropped, on a directory of its own that
\* was empty at first: its roll state and the records before which it rotated.
\* It runs the write_buffer of state.rs:354-375 without I/O errors.
NoRef == [started |-> FALSE, current_size |-> 0,
          created_at |-> [instant |-> 0, off |-> 0], cuts |-> {}]

\* state.rs:365-372 after the rotation decision of state.rs:324
RefWritten(r, len, t, rec, rotate) ==
    [started |-> TRUE,
     current_size |-> IF cfg.criterion = "Age" THEN 0
                      ELSE IF rotate THEN len ELSE r.current_size + len,
     created_at |-> IF rotate THEN [instant |-> t, off |-> FixedOffset]
                    ELSE r.created_at,
     cuts |-> IF rotate THEN r.cuts \cup {rec} ELSE r.cuts]

\* write_buffer of the record rec of len bytes at the second t; the first call
\* initializes on the empty directory.
RefWrite(r, len, t, rec) ==
    IF ~r.started
    THEN RefWritten([r EXCEPT !.created_at = [instant |-> t, off |-> FixedOffset]],
                    len, t, rec, FALSE)
    ELSE RefWritten(r, len, t, rec, rotation_necessary(r, t))

\* ------------------------------------------------------------ util.rs
\* What a format function does with the buffer it is given: the bytes it writes
\* into it before it returns, and Ok or Err as its result.
FormatBytes == {"a", "b"}

FormatOutcomes ==
    [out : UNION {[1..n -> FormatBytes] : n \in 0..MaxFmtLen}, ok : BOOLEAN]

NoOutcome == [out |-> << >>, ok |-> TRUE]

\* No call of write_buffered yet: the sink w and the diagnostic channel are
\* empty, and so is the thread-local buffer.  pc is "formatting" while a call
\* that has borrowed the thread-local buffer is in its format function, and
\* outer is history: the bytes that format function has written by then.
NoCalls == [w |-> << >>, diag |-> << >>, buffer |-> << >>, calls |-> 0,
            fmt |-> NoOutcome, borrowed |-> FALSE, w_ok |-> TRUE,
            result |-> "none", pc |-> "idle", outer |-> << >>]

\* eprint_err(ERRCODE::Format, ..) if the format function returned an error
FormatReported(diag, fmt) == IF fmt.ok THEN diag ELSE Append(diag, "Format")

\* w.write_all(&*buffer).map_err(..): the writer takes the buffer, or the error
\* is reported and becomes the result
WriterTakes(w, buffer, w_ok) == IF w_ok THEN w \o buffer ELSE w

WriteReported(diag, w_ok) == IF w_ok THEN diag ELSE Append(diag, "Write")

\* (format_function)(&mut *buffer, now, record) and buffer.write_all(b"\n"):
\* what the buffer holds when it is given to the writer, whatever the format
\* function returned
Formatted(buffer, fmt) == (buffer \o fmt.out) \o <<"\n">>

\* A faulty variant of the next, for comparison: a call made while the
\* thread-local buffer is in use fills and clears that buffer all the same.
WriteBufferedSharing(s, fmt, borrowed, w_ok) ==
    [w |-> WriterTakes(s.w, Formatted(s.buffer, fmt), w_ok),
     diag |-> WriteReported(FormatReported(s.diag, fmt), w_ok),
     buffer |-> << >>,
     calls |-> s.calls + 1,
     fmt |-> fmt, borrowed |-> borrowed, w_ok |-> w_ok,
     result |-> IF w_ok THEN "Ok" ELSE "Err",
     pc |-> IF borrowed THEN s.pc ELSE "idle",
     outer |-> IF borrowed THEN s.outer ELSE << >>]

\* write_buffered: fmt is what the format function does (from where it is, if
\* it is the one of a call in progress), borrowed whether the thread-local
\* buffer is in use (a log call made while formatting), w_ok whether the writer
\* accepts the bytes.  In use, the thread-local buffer is left alone and a
\* temporary one is filled; else it is filled and cleared.
write_buffered(s, fmt, borrowed, w_ok) ==
    [w |-> WriterTakes(s.w, Formatted(IF borrowed THEN << >> ELSE s.buffer, fmt),
                       w_ok),
     diag |-> WriteReported(FormatReported(s.diag, fmt), w_ok),
     buffer |-> IF borrowed THEN s.buffer ELSE << >>,
     calls |-> s.calls + 1,
     fmt |-> fmt, borrowed |-> borrowed, w_ok |-> w_ok,
     result |-> IF w_ok THEN "Ok" ELSE "Err",
     pc |-> IF borrowed THEN s.pc ELSE "idle",
     outer |-> IF borrowed THEN s.outer ELSE << >>]

\* try_borrow_mut() succeeds (util.rs:104) and the format function, given the
\* thread-local buffer, has written bytes into it when it makes a log call.
FormatStarted(s, bytes) ==
    [s EXCEPT !.pc = "formatting", !.buffer = @ \o bytes, !.outer = bytes]

\* ------------------------------------- the file handles of a rotation
\* A State that is Initial: no file is open.  pc is the position in
\* write_buffer, open the files open for writing, file the writer of
\* Inner::Active, line_writer the one that open_log_file returned, len the
\* length of the record of the call, compress whether the cleanup compresses.
NoMount == [pc |-> "initial", open |-> {}, file |-> 0, line_writer |-> 0,
            archive |-> 0, opened |-> 0, current_size |-> 0, len |-> 0,
            faults |-> 0, compress |-> FALSE]

\* A faulty variant of the next, for comparison: the old writer is leaked.
WriterLeaked(open, old) == open

\* *file = line_writer (state.rs:335): the old writer is dropped, which closes
\* its file
WriterDropped(open, old) == open \ {old}

\* ------------------------------------------------- FileLogWriter::reset
\* What a FileLogWriterBuilder declares: the discriminant of its FileSpec, the
\* write mode and the format function.
Builders ==
    [discr : 1..MaxDiscr, write_mode : {"BufferDontFlush", "Direct"},
     format : {"default_format", "detailed_format"}]

NoBuilder == [discr |-> 0, write_mode |-> "Direct", format |-> "default_format"]

\* No FileLogWriter built.
NoFlw == [config |-> NoBuilder, inner |-> "Initial", target |-> 0,
          files |-> << >>, written |-> 0,
          op |-> "none", flwb |-> NoBuilder, result |-> "Ok", refused |-> FALSE]

\* try_build of the builder b: the State is Initial, no file is open.
Built(b) ==
    [NoFlw EXCEPT !.config = b, !.files = [d \in 1..MaxDiscr |-> 0]]

\* The reset of the state handle: permissible only if the builder declares the
\* write mode and the format function of the sink, else it fails with Reset;
\* the sink is initialized anew with the configuration of the builder.
StateHandleReset(s, b) ==
    IF b.write_mode # s.config.write_mode \/ b.format # s.config.format
    THEN [s EXCEPT !.result = "Reset", !.refused = TRUE]
    ELSE [s EXCEPT !.config = b, !.inner = "Initial", !.target = 0,
                   !.result = "Ok"]

\* A faulty variant of the next, for comparison: the call is not passed on.
ResetNotPassedOn(s, b) == [s EXCEPT !.result = "Ok"]

\* FileLogWriter::reset: self.state_handle.reset(flwb)
FileLogWriterReset(s, b) == StateHandleReset(s, b)

\* FileLogWriter::write: self.state_handle.write(now, record); a State that is
\* Initial opens the file of its configuration first, and the record goes to
\* the file the writer is open on.
FileLogWriterWrite(s) ==
    [s EXCEPT !.inner = "Active",
              !.target = IF s.inner = "Initial" THEN s.config.discr ELSE @,
              !.files[IF s.inner = "Initial" THEN s.config.discr ELSE s.target]
                  = @ + 1,
              !.written = @ + 1,
              !.result = "Ok"]

\* ------------------------------------------------------ deferred_now.rs
\* DeferredNow::new(): Self(None), at second 0 of the clock
NewDeferredNow == [clock |-> 0, opt |-> [some |-> FALSE, at |-> 0], reads |-> << >>]

\* A faulty variant of the next, for comparison: every call reads the clock.
InsertAnew(opt, clock) == [some |-> TRUE, at |-> clock]

\* self.0.get_or_insert_with(now_local_or_utc)
get_or_insert_with(opt, clock) ==
    IF opt.some THEN opt ELSE [some |-> TRUE, at |-> clock]

\* .format(fmt).unwrap(): the calendar fields of the instant at its offset, the
\* local one
FormatInstant(at) == [fields |-> to_offset(at, FixedOffset), offset |-> FixedOffset]

\* ------------------------------------- Age::Day, Hour, Minute, Second
Ages == {"Day", "Hour", "Minute", "Second"}

\* The instants (seconds) checked: around the start of a minute, of an hour, of
\* a day at UTC and of a day at +8.
AgeInstants == {0, 1, 60, 3600, 57599, 57600, 86399, 86400}

\* What the comparisons of an age look at, of calendar fields t (one number of
\* seconds): year, month and day, then hour, then minute, then second.
AgeFields(age, t) ==
    CASE age = "Day" -> t \div 86400
      [] age = "Hour" -> t \div 3600
      [] age = "Minute" -> t \div 60
      [] OTHER -> t

\* age_rotation_necessary for Age::Day, Hour, Minute, Second: created_at and t
\* are the calendar fields of self.created_at and of now
AgeDiffers(age, created_at, t) == AgeFields(age, created_at) # AgeFields(age, t)

\* created_at as stored in the RotationState: created_at.to_offset(offset!(+8))
StoredCreatedAt(instant) == to_offset(instant, FixedOffset)

NoAgeCheck == [age |-> "Day", created |-> 0, now |-> 0, local |-> 0,
               result |-> "none"]

\* ------------------------------------------------- Age::EveryNewDay
\* now.to_offset(utc_offset).date(): the clock counts the hours since
\* 2021-12-30 00:00 UTC; December has 31 days.
DateAt(hours, utc_offset) ==
    IF 30 + ((hours + utc_offset) \div 24) <= 31
    THEN [year |-> 2021, month |-> 12, day |-> 30 + ((hours + utc_offset) \div 24)]
    ELSE [year |-> 2022, month |-> 1, day |-> ((hours + utc_offset) \div 24) - 1]

offset_date_time_to_year_month_day_number(date) ==
    date.year * 10000 + date.month * 100 + date.day

now_as_year_month_day_number(hours, utc_offset) ==
    offset_date_time_to_year_month_day_number(DateAt(hours, utc_offset))

\* The utc offsets of the criterion that are checked.
DayOffsets == {0, FixedOffset}

\* A sink between two checks.
NoCheck == [pc |-> "idle", number_current |-> 0, d |-> 0, n |-> 0]

\* SplitAtEveryNewDay::new(utc_offset) at hour 0, and its clones in the sinks
NewDayAt(utc_offset) ==
    [clock |-> 0, utc_offset |-> utc_offset,
     atomic_day_number |-> now_as_year_month_day_number(0, utc_offset),
     checks |-> [s \in 1..SharingSinks |-> NoCheck],
     results |-> {}]

\* No EveryNewDay criterion in use.
NoNewDay == [clock |-> 0, utc_offset |-> 0, atomic_day_number |-> 0,
             checks |-> << >>, results |-> {}]

\* atomic_day_number.store(number_current) unless d == number_current
DayNumberStored(atomic, c) == IF c.d = c.number_current THEN atomic ELSE c.number_current

\* ------------------------------------------- a rotation that fails
\* The criteria of the sink: Size, Age and AgeOrSize, the age being Age::Hour or
\* Age::EveryNewDay at utc offset 0.
PendCriteria ==
    {c \in [size : BOOLEAN, age : {"none", "Hour", "EveryNewDay"}] :
        c.size \/ c.age # "none"}

\* No such sink.  clock counts the hours since 2021-12-30 00:00 UTC, file is
\* the file the writer is open on, current the file named _rCURRENT (0: none),
\* opened the files opened so far; attempted, failed and target tell what the
\* latest write_buffer did.
NoPend == [criterion |-> [size |-> TRUE, age |-> "none"], clock |-> 0,
           current_size |-> 0, created_at |-> 0, atomic_day_number |-> 0,
           file |-> 0, current |-> 0, opened |-> 0, writes |-> 0, faults |-> 0,
           attempted |-> FALSE, failed |-> FALSE, target |-> 0]

\* The sink with criterion c after initialize at hour 0: SplitAtEveryNewDay::new
\* has stored the day number of that hour, _rCURRENT is open.
PendBuilt(c) ==
    [NoPend EXCEPT !.criterion = c, !.file = 1, !.current = 1, !.opened = 1,
                   !.atomic_day_number = now_as_year_month_day_number(0, 0)]

\* age_rotation_necessary: [necessary, atomic_day_number]; EveryNewDay stores the
\* day number it finds (state.rs:97-105), Hour compares created_at with now.
PendAgeNecessary(p) ==
    IF p.criterion.age = "EveryNewDay"
    THEN [necessary |-> p.atomic_day_number
                            # now_as_year_month_day_number(p.clock, 0),
          atomic_day_number |->
              DayNumberStored(p.atomic_day_number,
                              [d |-> p.atomic_day_number,
                               number_current |->
                                   now_as_year_month_day_number(p.clock, 0)])]
    ELSE [necessary |-> AgeDiffers(p.criterion.age,
                                   StoredCreatedAt(p.created_at * 3600),
                                   to_offset(p.clock * 3600, FixedOffset)),
          atomic_day_number |-> p.atomic_day_number]

\* rotation_necessary (state.rs:136-147): with AgeOrSize the age is looked at
\* only if the size does not call for a rotation.
PendRotationNecessary(p) ==
    IF p.criterion.size /\ size_rotation_necessary(SizeLimit, p.current_size)
    THEN [necessary |-> TRUE, atomic_day_number |-> p.atomic_day_number]
    ELSE IF p.criterion.age = "none"
    THEN [necessary |-> FALSE, atomic_day_number |-> p.atomic_day_number]
    ELSE PendAgeNecessary(p)

\* mount_next_linewriter_if_necessary (state.rs:322-352), n the result of
\* rotation_necessary: the rename fails, or the open after it, or both succeed.
PendMounted(p, n, fault) ==
    IF ~n.necessary
    THEN [p EXCEPT !.atomic_day_number = n.atomic_day_number,
                   !.attempted = FALSE, !.failed = FALSE]
    ELSE IF fault = "rename"
    THEN [p EXCEPT !.atomic_day_number = n.atomic_day_number,
                   !.attempted = TRUE, !.failed = TRUE]
    ELSE IF fault = "open"
    THEN [p EXCEPT !.atomic_day_number = n.atomic_day_number, !.current = 0,
                   !.attempted = TRUE, !.failed = TRUE]
    ELSE [p EXCEPT !.atomic_day_number = n.atomic_day_number,
                   !.file = p.opened + 1, !.current = p.opened + 1,
                   !.opened = p.opened + 1, !.created_at = p.clock,
                   !.current_size = 0, !.attempted = TRUE, !.failed = FALSE]

\* state.rs:364-372: the record goes to the writer, and the size is counted
PendWritten(p, len) ==
    [p EXCEPT !.target = p.file, !.writes = @ + 1,
              !.current_size = IF p.criterion.size THEN @ + len ELSE @]

\* write_buffer (state.rs:354-375) of an Active sink
PendWriteBuffer(p, len, fault) ==
    PendWritten(PendMounted(p, PendRotationNecessary(p), fault), len)

\* --------------------------------------------------------------- actions
Init ==
    /\ cfg \in Configs
    /\ now = 0
    /\ dir = << >>
    /\ data = << >>
    /\ inner = "Initial"
    /\ rot = NoRot
    /\ file = NoWriter
    /\ chan = << >>
    /\ worker = NoWorker
    /\ mainpc = "ready"
    /\ lens = << >>
    /\ produced = << >>
    /\ cuts = {}
    /\ ref = NoRef
    /\ last = NoLast
    /\ counts = [faults |-> 0, sinks |-> 1, shutdowns |-> 0]
    /\ wb = NoCalls
    /\ newday = NoNewDay
    /\ agecheck = NoAgeCheck
    /\ dnow = NewDeferredNow
    /\ mount = NoMount
    /\ flw = NoFlw
    /\ pend = NoPend

Names(seq) == SelectSeq(seq, LAMBDA x : x # NoName)

\* history: what the call did in initialize
LastInit(fault, i) ==
    [NoLast EXCEPT
       !.op = "write", !.ok = FALSE, !.init = inner = "Initial",
       !.discovered = i.discovered,
       !.siblings = Rotated([dir |-> dir, data |-> data]),
       !.initMissing = inner = "Initial" /\ ~cfg.append /\ ~i.panic
                       /\ fault # "init_rename" /\ CURRENT_INFIX \notin DOMAIN dir,
       !.initRenamed = i.renamed,
       !.prev = IF CURRENT_INFIX \in DOMAIN dir THEN data[dir[CURRENT_INFIX]]
                ELSE NoContent,
       !.old = file.ino, !.buf = file.buf, !.fault = fault, !.listed = i.listed,
       !.removed = PassRemoves(cfg.cleanup, i.listed, i.ok)]

\* history: what the call did in mount_next_linewriter_if_necessary
LastMount(fault, i, m, ok) ==
    [LastInit(fault, i) EXCEPT
       !.ok = ok, !.attempted = m.attempted, !.size = i.rot.current_size,
       !.missing = m.attempted /\ ~m.panic /\ fault # "rot_rename"
                   /\ ~Exists(i.fs, CURRENT_INFIX),
       !.renamed = m.renamed, !.reopened = m.reopened,
       !.before = i.rot.naming_state, !.after = m.rot.naming_state,
       !.listed = IF m.attempted THEN m.listed ELSE i.listed,
       !.removed = PassRemoves(cfg.cleanup, i.listed, i.ok)
                   + PassRemoves(cfg.cleanup, m.listed, m.ok)]

\* The thread initialize has spawned, if it has.
Spawned(i) ==
    IF inner = "Initial" /\ i.rot.handle
    THEN [pc |-> "idle", list |-> << >>, index |-> 0] ELSE worker

\* A faulty variant of the next, for comparison: the error of initialize is
\* only reported, like the one of the rotation, and the call returns Ok.
WriteInitErrorDropped(fault, i) ==
    /\ i.panic => fault = "none"
    /\ dir' = i.fs.dir
    /\ data' = i.fs.data
    /\ mainpc' = IF i.panic THEN "panicked" ELSE "ready"
    /\ produced' = produced \o Names(<<i.renamed>>)
    /\ last' = [LastInit(fault, i) EXCEPT !.ok = TRUE]
    /\ UNCHANGED <<inner, rot, file, chan, worker, lens, cuts, ref>>

\* state.rs:355-357: initialize failed, its error is returned and the State
\* stays Initial.
WriteInitFailed(fault, i) ==
    /\ i.panic => fault = "none"
    /\ dir' = i.fs.dir
    /\ data' = i.fs.data
    /\ mainpc' = IF i.panic THEN "panicked" ELSE "ready"
    /\ produced' = produced \o Names(<<i.renamed>>)
    /\ last' = LastInit(fault, i)
    /\ UNCHANGED <<inner, rot, file, chan, worker, lens, cuts, ref>>

\* A panic in mount_next_linewriter_if_necessary unwinds the call.
WritePanicked(fault, i, m) ==
    /\ fault = "none"
    /\ dir' = m.fs.dir
    /\ data' = m.fs.data
    /\ inner' = "Active"
    /\ rot' = m.rot
    /\ file' = m.file
    /\ worker' = Spawned(i)
    /\ mainpc' = "panicked"
    /\ produced' = produced \o Names(<<i.renamed>>)
    /\ last' = LastMount(fault, i, m, FALSE)
    /\ UNCHANGED <<chan, lens, cuts, ref>>

\* A faulty variant of the next, for comparison: it counts calls, not bytes.
AddWrittenCalls(rs, len) ==
    [rs EXCEPT !.current_size = IF cfg.criterion = "Age" THEN @ ELSE @ + 1]

\* state.rs:366-372: *current_size += buf.len()
AddWritten(rs, len) ==
    [rs EXCEPT !.current_size = IF cfg.criterion = "Age" THEN @ ELSE @ + len]

\* state.rs:364-374: write_all, wr its result, and the size counter
WriteWritten(len, fault, i, m, wr) ==
    /\ fault = "rot_rename" => m.attempted
    /\ fault = "rot_open" => m.attempted
    /\ fault = "rot_cleanup" => (m.reopened /\ ~m.ok)
    /\ fault \notin {"init_rename", "init_open", "init_metadata", "init_cleanup",
                    "init_spawn"}
    /\ dir' = wr.fs.dir
    /\ data' = wr.fs.data
    /\ inner' = "Active"
    /\ rot' = AddWritten(m.rot, len)
    /\ file' = wr.w
    /\ worker' = Spawned(i)
    /\ chan' = IF m.act THEN Append(chan, "Act") ELSE chan
    /\ lens' = Append(lens, len)
    /\ produced' = produced \o Names(<<i.renamed, m.renamed>>)
    /\ cuts' = IF m.reopened THEN cuts \cup {Len(lens) + 1} ELSE cuts
    /\ ref' = IF cfg.append THEN RefWrite(ref, len, now, Len(lens) + 1) ELSE ref
    /\ last' = LastMount(fault, i, m, TRUE)
    /\ UNCHANGED mainpc

\* state.rs:358-362: the rotation, m its result; its error is only reported
WriteMounted(len, fault, i, m) ==
    IF m.panic THEN WritePanicked(fault, i, m)
    ELSE WriteWritten(len, fault, i, m,
                      WriteAll(m.fs, m.file, Append(lens, len), cfg.buffered,
                               Len(lens) + 1))

\* state.rs:355-362: i is the result of initialize, or the Active state as it is
WriteInitialized(len, fault, i) ==
    IF ~i.ok THEN WriteInitFailed(fault, i)
    ELSE WriteMounted(len, fault, i,
                      mount_next_linewriter_if_necessary(i.fs, i.rot, i.file, now, fault))

\* A faulty variant of the next, for comparison: it initializes at every call.
InitializeAlways(fs, t, ls, fault) == Initialize(fs, t, ls, fault)

\* state.rs:355-357 and 224: initialize does its work only on a State that is
\* Initial; on an Active one the call goes on with the state as it is.
InitializeIfInitial(fs, t, ls, fault) ==
    IF inner = "Initial" THEN Initialize(fs, t, ls, fault)
    ELSE InitResult(TRUE, FALSE, fs, rot, file, NoName, CreatedAt, NotListed)

\* State::write_buffer(buf) for a record of len bytes; fault is the I/O error the
\* environment injects into the call: the call it names fails (if it is made).
WriteBuffer(len, fault) ==
    /\ mainpc = "ready"
    /\ Len(lens) < MaxRecs
    /\ fault # "none" => counts.faults < MaxFaults
    /\ counts' = [counts EXCEPT !.faults = IF fault = "none" THEN @ ELSE @ + 1,
                                !.shutdowns = 0]
    /\ WriteInitialized(len, fault,
           InitializeIfInitial([dir |-> dir, data |-> data], now, Append(lens, len),
                               fault))
    /\ UNCHANGED <<units, cfg, now>>

\* State::flush
Flush ==
    /\ mainpc = "ready"
    /\ inner = "Active"
    /\ file.buf # << >>
    /\ data' = FlushWriter([dir |-> dir, data |-> data], file).data
    /\ file' = [file EXCEPT !.buf = << >>]
    /\ UNCHANGED <<units, cfg, now, dir, inner, rot, chan, worker, mainpc, lens, produced,
                   cuts, ref, last, counts>>

\* State::try_new: the next sink on the same FileSpec and configuration.
NewSink ==
    /\ inner' = "Initial"
    /\ rot' = NoRot
    /\ file' = NoWriter
    /\ chan' = << >>
    /\ worker' = NoWorker
    /\ produced' = << >>
    /\ counts' = [counts EXCEPT !.sinks = @ + 1, !.shutdowns = 0]

\* A faulty variant of the next, for comparison: the handle stays in place.
TakeHandleKeeping(rs) == rs

\* self.o_cleanup_thread_handle.take()
TakeHandle(rs) == [rs EXCEPT !.handle = FALSE]

\* State::shutdown, up to the join of the cleanup thread; with drop it is the
\* shutdown done by Drop for FileLogWriter, after which the sink is gone and the
\* program builds the next one.  On a State that is still Initial there is
\* nothing to shut down, and the next sink is Initial like the dropped one.
Shutdown(drop) ==
    /\ mainpc = "ready"
    /\ drop => counts.sinks < MaxSinks
    /\ ~drop => counts.shutdowns < MaxShutdowns
    /\ IF inner = "Initial"
       THEN /\ counts' = IF drop THEN counts ELSE [counts EXCEPT !.shutdowns = @ + 1]
            /\ UNCHANGED <<data, inner, rot, file, chan, worker, mainpc, produced>>
       ELSE IF rot.handle
       THEN /\ rot' = TakeHandle(rot)
            /\ chan' = Append(chan, "Die")
            /\ mainpc' = IF drop THEN "dropping" ELSE "joining"
            /\ UNCHANGED <<data, inner, file, worker, produced, counts>>
       ELSE /\ data' = FlushWriter([dir |-> dir, data |-> data], file).data
            /\ mainpc' = "ready"
            /\ IF drop THEN NewSink
               ELSE /\ file' = [file EXCEPT !.buf = << >>]
                    /\ counts' = [counts EXCEPT !.shutdowns = @ + 1]
                    /\ UNCHANGED <<inner, rot, chan, worker, produced>>
    /\ UNCHANGED <<units, cfg, now, dir, lens, cuts, ref, last>>

\* A faulty variant of the next, for comparison: the thread is detached, nobody
\* waits for it.
JoinedDetached ==
    /\ mainpc \in {"joining", "dropping"}
    /\ data' = FlushWriter([dir |-> dir, data |-> data], file).data
    /\ mainpc' = "ready"
    /\ IF mainpc = "dropping" THEN NewSink
       ELSE /\ file' = [file EXCEPT !.buf = << >>]
            /\ counts' = [counts EXCEPT !.shutdowns = @ + 1]
            /\ UNCHANGED <<inner, rot, chan, worker, produced>>
    /\ UNCHANGED <<units, cfg, now, dir, lens, cuts, ref, last>>

\* join_handle.join() returns, and State::shutdown flushes the writer.
Joined ==
    /\ mainpc \in {"joining", "dropping"}
    /\ worker.pc = "exited"
    /\ data' = FlushWriter([dir |-> dir, data |-> data], file).data
    /\ mainpc' = "ready"
    /\ IF mainpc = "dropping" THEN NewSink
       ELSE /\ file' = [file EXCEPT !.buf = << >>]
            /\ counts' = [counts EXCEPT !.shutdowns = @ + 1]
            /\ UNCHANGED <<inner, rot, chan, worker, produced>>
    /\ UNCHANGED <<units, cfg, now, dir, lens, cuts, ref, last>>

\* A faulty variant of the next, for comparison: the thread takes Die like any
\* other message and goes on waiting.
WorkerRecvIgnoringDie ==
    /\ worker.pc = "idle"
    /\ chan # << >>
    /\ chan' = Tail(chan)
    /\ worker' = IF Head(chan) = "Die" \/ Rotated([dir |-> dir, data |-> data]) = {}
                 THEN worker
                 ELSE [pc |-> "pass", index |-> 0,
                       list |-> list_of_log_and_compressed_files(
                                    [dir |-> dir, data |-> data])]
    /\ UNCHANGED <<units, cfg, now, dir, data, inner, rot, file, mainpc, lens, produced,
                   cuts, ref, last, counts>>

\* The cleanup thread: receiver.recv(), and the list of the pass on Act
WorkerRecv ==
    /\ worker.pc = "idle"
    /\ chan # << >>
    /\ chan' = Tail(chan)
    /\ worker' = IF Head(chan) = "Die" THEN [worker EXCEPT !.pc = "exited"]
                 ELSE IF Rotated([dir |-> dir, data |-> data]) = {} THEN worker
                 ELSE [pc |-> "pass", index |-> 0,
                       list |-> list_of_log_and_compressed_files(
                                    [dir |-> dir, data |-> data])]
    /\ UNCHANGED <<units, cfg, now, dir, data, inner, rot, file, mainpc, lens, produced,
                   cuts, ref, last, counts>>

\* The cleanup thread: one entry of the list of its pass, r its result
WorkerStepped(r) ==
    /\ dir' = r.fs.dir
    /\ data' = r.fs.data
    /\ worker' = IF ~r.ok \/ worker.index + 1 >= Len(worker.list)
                 THEN [pc |-> "idle", list |-> << >>, index |-> 0]
                 ELSE [worker EXCEPT !.index = @ + 1]

WorkerStep ==
    /\ worker.pc = "pass"
    /\ WorkerStepped(CleanupEntry([dir |-> dir, data |-> data],
                                  worker.list[worker.index + 1], worker.index,
                                  cfg.cleanup.L, cfg.cleanup.Z))
    /\ UNCHANGED <<units, cfg, now, inner, rot, file, chan, mainpc, lens, produced, cuts, ref,
                   last, counts>>

\* The cleanup thread: the call of the file system for the entry returns an
\* error; it ends the pass, and the thread drops the error (state.rs:277-281)
\* and waits for the next message.
WorkerFail ==
    /\ worker.pc = "pass"
    /\ counts.faults < MaxFaults
    /\ EntryActs(worker.list[worker.index + 1], worker.index,
                 cfg.cleanup.L, cfg.cleanup.Z)
    /\ worker' = [pc |-> "idle", list |-> << >>, index |-> 0]
    /\ counts' = [counts EXCEPT !.faults = @ + 1]
    /\ UNCHANGED <<units, cfg, now, dir, data, inner, rot, file, chan, mainpc, lens, produced,
                   cuts, ref, last>>

\* A second passes.
Tick ==
    /\ now < MaxTime
    /\ now' = now + 1
    /\ UNCHANGED <<units, cfg, dir, data, inner, rot, file, chan, worker, mainpc, lens,
                   produced, cuts, ref, last, counts>>

Next ==
    \/ \E len \in 1..MaxRecLen, fault \in Faults : WriteBuffer(len, fault)
    \/ Flush
    \/ \E drop \in BOOLEAN : Shutdown(drop)
    \/ Joined
    \/ WorkerRecv
    \/ WorkerStep
    \/ WorkerFail
    \/ Tick

Spec == Init /\ [][Next]_vars

\* The cleanup thread is a thread of its own that the scheduler lets run, and
\* join returns once that thread has ended.
FairSpec ==
    Spec /\ WF_vars(WorkerRecv) /\ WF_vars(WorkerStep \/ WorkerFail) /\ WF_vars(Joined)

\* ------------------------------------------- the components beside the sink
\* The file sink as built and never used, while a component is exercised.
Unused ==
    /\ cfg = Cfg("Numbers", 0, FALSE, FALSE, 0, 0, FALSE, FALSE, "Size")
    /\ now = 0
    /\ dir = << >>
    /\ data = << >>
    /\ inner = "Initial"
    /\ rot = NoRot
    /\ file = NoWriter
    /\ chan = << >>
    /\ worker = NoWorker
    /\ mainpc = "ready"
    /\ lens = << >>
    /\ produced = << >>
    /\ cuts = {}
    /\ ref = NoRef
    /\ last = NoLast
    /\ counts = [faults |-> 0, sinks |-> 1, shutdowns |-> 0]

\* A call of write_buffered begins: its format function runs up to a log call
\* it makes.
FormatLogs(bytes) ==
    /\ wb.pc = "idle"
    /\ wb.calls + 1 < MaxCalls
    /\ wb' = FormatStarted(wb, bytes)
    /\ UNCHANGED <<sinkvars, newday, agecheck, dnow, mount, flw, pend>>

\* A call of write_buffered for one record, or the rest of one that has begun;
\* the thread-local buffer is in use exactly in the calls that the format
\* function of a call in progress makes.
WriteBuffered(fmt, borrowed, w_ok) ==
    /\ wb.calls < MaxCalls
    /\ borrowed => wb.pc = "formatting"
    /\ wb' = write_buffered(wb, fmt, borrowed, w_ok)
    /\ UNCHANGED <<sinkvars, newday, agecheck, dnow, mount, flw, pend>>

UtilInit ==
    /\ Unused
    /\ pend = NoPend
    /\ wb = NoCalls
    /\ newday = NoNewDay
    /\ agecheck = NoAgeCheck
    /\ dnow = NewDeferredNow
    /\ mount = NoMount
    /\ flw = NoFlw

UtilNext ==
    \/ \E fmt \in FormatOutcomes, borrowed \in BOOLEAN, w_ok \in BOOLEAN :
           WriteBuffered(fmt, borrowed, w_ok)
    \/ \E fmt \in FormatOutcomes : FormatLogs(fmt.out)

UtilSpec == UtilInit /\ [][UtilNext]_vars

\* age_rotation_necessary(EveryNewDay) of sink s, first step: the clock is
\* read and the day number at the offset of the criterion computed.
DayNow(s) ==
    /\ newday.checks[s].pc = "idle"
    /\ newday.checks[s].n < MaxChecks
    /\ newday' = [newday EXCEPT !.checks[s] =
                     [pc |-> "now", d |-> 0, n |-> @.n + 1,
                      number_current |->
                          now_as_year_month_day_number(newday.clock,
                                                       newday.utc_offset)]]
    /\ UNCHANGED <<sinkvars, wb, agecheck, dnow, mount, flw, pend>>

\* second step: atomic_day_number.load(SeqCst)
DayLoad(s) ==
    /\ newday.checks[s].pc = "now"
    /\ newday' = [newday EXCEPT !.checks[s].pc = "loaded",
                                !.checks[s].d = newday.atomic_day_number]
    /\ UNCHANGED <<sinkvars, wb, agecheck, dnow, mount, flw, pend>>

\* third step: the comparison, atomic_day_number.store(SeqCst) if the numbers
\* differ, and the result of the check
DayDecide(s) ==
    /\ newday.checks[s].pc = "loaded"
    /\ newday' = [newday EXCEPT
                     !.atomic_day_number = DayNumberStored(@, newday.checks[s]),
                     !.checks[s].pc = "idle",
                     !.results = @ \cup
                         {[sink |-> s, n |-> newday.checks[s].n,
                           day |-> newday.checks[s].number_current,
                           rotate |-> newday.checks[s].d
                                      # newday.checks[s].number_current]}]
    /\ UNCHANGED <<sinkvars, wb, agecheck, dnow, mount, flw, pend>>

\* Twelve hours pass.
DayTick ==
    /\ newday.clock < MaxHours
    /\ newday' = [newday EXCEPT !.clock = @ + 12]
    /\ UNCHANGED <<sinkvars, wb, agecheck, dnow, mount, flw, pend>>

NewDayInit ==
    /\ Unused
    /\ pend = NoPend
    /\ wb = NoCalls
    /\ agecheck = NoAgeCheck
    /\ dnow = NewDeferredNow
    /\ mount = NoMount
    /\ flw = NoFlw
    /\ newday \in {NewDayAt(o) : o \in DayOffsets}

NewDayNext ==
    \/ \E s \in 1..SharingSinks : DayNow(s)
    \/ \E s \in 1..SharingSinks : DayLoad(s)
    \/ \E s \in 1..SharingSinks : DayDecide(s)
    \/ DayTick

NewDaySpec == NewDayInit /\ [][NewDayNext]_vars

\* A write to a file created at one instant, made at a later one: the check of
\* the age, with now_local_or_utc() at the local offset.
AgeCheck ==
    /\ agecheck.result = "none"
    /\ agecheck' = [agecheck EXCEPT !.result =
                       IF AgeDiffers(agecheck.age, StoredCreatedAt(agecheck.created),
                                     to_offset(agecheck.now, agecheck.local))
                       THEN "rotate" ELSE "keep"]
    /\ UNCHANGED <<sinkvars, wb, newday, dnow, mount, flw, pend>>

AgeInit ==
    /\ Unused
    /\ pend = NoPend
    /\ wb = NoCalls
    /\ newday = NoNewDay
    /\ dnow = NewDeferredNow
    /\ mount = NoMount
    /\ flw = NoFlw
    /\ agecheck \in {c \in [age : Ages, created : AgeInstants, now : AgeInstants,
                             local : {0, FixedOffset, MaxOffset}, result : {"none"}] :
                        c.created <= c.now}

AgeNext == AgeCheck

AgeSpec == AgeInit /\ [][AgeNext]_vars

\* initialize (state.rs:253-259): open_log_file opens _rCURRENT.
MountInitialize ==
    /\ mount.pc = "initial"
    /\ mount' = [mount EXCEPT !.pc = "idle", !.opened = 1, !.file = 1,
                              !.open = {1}]
    /\ UNCHANGED <<sinkvars, wb, newday, agecheck, dnow, flw, pend>>

\* write_buffer(buf) is called with a record of len bytes (state.rs:354-359):
\* rotation_necessary decides whether mount_next rotates first.
MountCall(len) ==
    /\ mount.pc = "idle"
    /\ size_rotation_necessary(SizeLimit, mount.current_size)
       => mount.opened < MaxOpens
    /\ mount' = [mount EXCEPT
                    !.len = len,
                    !.pc = IF size_rotation_necessary(SizeLimit, mount.current_size)
                           THEN "rename" ELSE "write"]
    /\ UNCHANGED <<sinkvars, wb, newday, agecheck, dnow, flw, pend>>

\* state.rs:325-332: the rename of _rCURRENT; its error ends mount_next, is
\* reported by write_buffer (state.rs:359-362), and the record is written.
MountRename(fail) ==
    /\ mount.pc = "rename"
    /\ fail => mount.faults < MaxFaults
    /\ mount' = [mount EXCEPT !.pc = IF fail THEN "write" ELSE "open",
                              !.faults = IF fail THEN @ + 1 ELSE @]
    /\ UNCHANGED <<sinkvars, wb, newday, agecheck, dnow, flw, pend>>

\* state.rs:334: open_log_file opens the new _rCURRENT; its error ends
\* mount_next likewise.
MountOpen(fail) ==
    /\ mount.pc = "open"
    /\ fail => mount.faults < MaxFaults
    /\ mount' = IF fail
                THEN [mount EXCEPT !.pc = "write", !.faults = @ + 1]
                ELSE [mount EXCEPT !.pc = "assign", !.opened = @ + 1,
                                   !.line_writer = mount.opened + 1,
                                   !.open = @ \cup {mount.opened + 1}]
    /\ UNCHANGED <<sinkvars, wb, newday, agecheck, dnow, flw, pend>>

\* state.rs:335-341: *file = line_writer, and the size counter starts anew
MountAssign ==
    /\ mount.pc = "assign"
    /\ mount' = [mount EXCEPT !.pc = "cleanup", !.file = mount.line_writer,
                              !.line_writer = 0, !.current_size = 0,
                              !.open = WriterDropped(@, mount.file)]
    /\ UNCHANGED <<sinkvars, wb, newday, agecheck, dnow, flw, pend>>

\* state.rs:343-347 with 587-600: the pass run inline; it compresses the file
\* just rotated into an archive that File::create opens for writing.
MountCleanup ==
    /\ mount.pc = "cleanup"
    /\ mount' = IF mount.compress
                THEN [mount EXCEPT !.pc = "compress", !.archive = 1]
                ELSE [mount EXCEPT !.pc = "write"]
    /\ UNCHANGED <<sinkvars, wb, newday, agecheck, dnow, flw, pend>>

\* state.rs:598-600: gz_encoder.finish() and the end of the block, which drops
\* the archive
MountCompressed ==
    /\ mount.pc = "compress"
    /\ mount' = [mount EXCEPT !.pc = "write", !.archive = 0]
    /\ UNCHANGED <<sinkvars, wb, newday, agecheck, dnow, flw, pend>>

\* state.rs:364-372: the record is written through *file
MountWrite ==
    /\ mount.pc = "write"
    /\ mount' = [mount EXCEPT !.pc = "idle", !.current_size = @ + mount.len]
    /\ UNCHANGED <<sinkvars, wb, newday, agecheck, dnow, flw, pend>>

MountInit ==
    /\ Unused
    /\ pend = NoPend
    /\ wb = NoCalls
    /\ newday = NoNewDay
    /\ agecheck = NoAgeCheck
    /\ dnow = NewDeferredNow
    /\ mount \in {[NoMount EXCEPT !.compress = c] : c \in BOOLEAN}
    /\ flw = NoFlw

MountNext ==
    \/ MountInitialize
    \/ \E len \in 1..MaxRecLen : MountCall(len)
    \/ \E fail \in BOOLEAN : MountRename(fail)
    \/ \E fail \in BOOLEAN : MountOpen(fail)
    \/ MountAssign
    \/ MountCleanup
    \/ MountCompressed
    \/ MountWrite

MountSpec == MountInit /\ [][MountNext]_vars

\* flw.reset(&builder)
Reset(b) ==
    /\ flw' = [FileLogWriterReset(flw, b) EXCEPT !.op = "reset", !.flwb = b]
    /\ UNCHANGED <<sinkvars, wb, newday, agecheck, dnow, mount, pend>>

\* flw.write(&mut DeferredNow::new(), &record)
ResetWrite ==
    /\ flw.written < MaxRecs
    /\ flw' = [FileLogWriterWrite(flw) EXCEPT !.op = "write", !.flwb = NoBuilder]
    /\ UNCHANGED <<sinkvars, wb, newday, agecheck, dnow, mount, pend>>

ResetInit ==
    /\ Unused
    /\ pend = NoPend
    /\ wb = NoCalls
    /\ newday = NoNewDay
    /\ agecheck = NoAgeCheck
    /\ dnow = NewDeferredNow
    /\ mount = NoMount
    /\ flw \in {Built(b) : b \in {c \in Builders : c.discr = 1}}

ResetNext ==
    \/ \E b \in Builders : Reset(b)
    \/ ResetWrite

ResetSpec == ResetInit /\ [][ResetNext]_vars

\* DeferredNow::now(): the instant it returns, and the clock then
DeferredNowNow ==
    /\ Len(dnow.reads) < MaxReads
    /\ dnow' = [dnow EXCEPT
                   !.opt = get_or_insert_with(@, dnow.clock),
                   !.reads = Append(@, [op |-> "now", clock |-> dnow.clock,
                                        value |-> get_or_insert_with(
                                                      dnow.opt, dnow.clock).at])]
    /\ UNCHANGED <<sinkvars, wb, newday, agecheck, mount, flw, pend>>

\* DeferredNow::format(fmt): self.now().format(fmt).unwrap()
DeferredNowFormat ==
    /\ Len(dnow.reads) < MaxReads
    /\ dnow' = [dnow EXCEPT
                   !.opt = get_or_insert_with(@, dnow.clock),
                   !.reads = Append(@, [op |-> "format", clock |-> dnow.clock,
                                        value |-> FormatInstant(
                                                      get_or_insert_with(
                                                          dnow.opt, dnow.clock).at)])]
    /\ UNCHANGED <<sinkvars, wb, newday, agecheck, mount, flw, pend>>

\* A second passes.
DeferredNowTick ==
    /\ dnow.clock < MaxClock
    /\ dnow' = [dnow EXCEPT !.clock = @ + 1]
    /\ UNCHANGED <<sinkvars, wb, newday, agecheck, mount, flw, pend>>

DeferredNowInit ==
    /\ Unused
    /\ pend = NoPend
    /\ wb = NoCalls
    /\ newday = NoNewDay
    /\ agecheck = NoAgeCheck
    /\ mount = NoMount
    /\ flw = NoFlw
    /\ dnow = NewDeferredNow

DeferredNowNext ==
    \/ DeferredNowNow
    \/ DeferredNowFormat
    \/ DeferredNowTick

DeferredNowSpec == DeferredNowInit /\ [][DeferredNowNext]_vars

\* A write of the sink; fault is the I/O error injected into its rotation.
PendWrite(len, fault) ==
    /\ pend.writes < MaxWrites
    /\ fault # "none" => /\ pend.faults < MaxFaults
                         /\ PendRotationNecessary(pend).necessary
    /\ pend' = [PendWriteBuffer(pend, len, fault) EXCEPT
                   !.faults = IF fault = "none" THEN @ ELSE @ + 1]
    /\ UNCHANGED <<sinkvars, wb, newday, agecheck, dnow, mount, flw>>

\* Twelve hours pass.
PendTick ==
    /\ pend.clock < MaxHours
    /\ pend' = [pend EXCEPT !.clock = @ + 12]
    /\ UNCHANGED <<sinkvars, wb, newday, agecheck, dnow, mount, flw>>

PendInit ==
    /\ Unused
    /\ wb = NoCalls
    /\ newday = NoNewDay
    /\ agecheck = NoAgeCheck
    /\ dnow = NewDeferredNow
    /\ mount = NoMount
    /\ flw = NoFlw
    /\ pend \in {PendBuilt(c) : c \in PendCriteria}

PendNext ==
    \/ \E len \in 1..MaxRecLen, fault \in {"none", "rename", "open"} :
           PendWrite(len, fault)
    \/ PendTick

PendSpec == PendInit /\ [][PendNext]_vars

\* ================================================================ claims
\* C1: with rotation configured, the handle every write_buffer call writes
\* through is a handle on the file that is named _rCURRENT at that moment, after
\* any sequence of writes, rotations (failed ones included), flushes and
\* shutdowns.
C1_WritesGoToCurrent ==
    (inner = "Active" /\ last.op = "write" /\ last.ok)
        => (CURRENT_INFIX \in DOMAIN dir /\ dir[CURRENT_INFIX] = file.ino)

\* The same, for the calls into which no I/O error was injected so far.
C1_WritesGoToCurrentNoFault ==
    (inner = "Active" /\ last.op = "write" /\ last.ok /\ counts.faults = 0)
        => (CURRENT_INFIX \in DOMAIN dir /\ dir[CURRENT_INFIX] = file.ino)

\* C2: within one sink lifetime every successful rotation, the one done by
\* initialize included, produces a name that is greater in filename order than
\* every rotated name the sink produced before.
C2_RotatedNamesIncrease ==
    \A i, j \in 1..Len(produced) : i < j => NameLess(produced[i], produced[j])

\* C3: with Naming::Timestamps the rotations of one sink yield pairwise
\* distinct rotated names, also when earlier files of the same second were
\* deleted or compressed by the retention in between.
C3_TimestampNamesDistinct ==
    cfg.naming = "Timestamps"
        => \A i, j \in 1..Len(produced) : i # j => produced[i] # produced[j]

\* C4: with Naming::Numbers the index state of a sink is the largest index it
\* discovered or assigned: initialize starts from the discovered state, every
\* successful rename goes to index k+1 of the state Idx(k) before it (index 0
\* from Start) and leaves the state at exactly that index, a call without a
\* rename leaves the state alone, and so the names the sink produced carry
\* consecutive indices, the last of them the index of the current state.
C4_IndexConsecutive ==
    (cfg.naming = "Numbers" /\ last.op = "write") =>
        /\ \A i \in 1..(Len(produced) - 1) : produced[i + 1].n = produced[i].n + 1
        /\ (inner = "Active" /\ produced # << >>)
               => rot.naming_state = Idx(produced[Len(produced)].n)
        /\ last.initRenamed # NoName
               => /\ last.initRenamed.k = "num"
                  /\ last.initRenamed.n = IF last.discovered.tag = "Start" THEN 0
                                          ELSE last.discovered.idx + 1
                  /\ last.ok => last.before = Idx(last.initRenamed.n)
        /\ (last.init /\ last.ok /\ last.initRenamed = NoName)
               => last.before = last.discovered
        /\ (last.ok /\ last.renamed # NoName)
               => /\ last.renamed.k = "num"
                  /\ last.renamed.n = IF last.before.tag = "Start" THEN 0
                                      ELSE last.before.idx + 1
                  /\ last.after = Idx(last.renamed.n)
        /\ (last.ok /\ last.renamed = NoName) => last.after = last.before

\* C4's case: a sink that started from Start has rotated twice, to the indices
\* 0 and 1.
C4_Witness ==
    /\ cfg.naming = "Numbers"
    /\ inner = "Active"
    /\ produced = <<number_infix(0), number_infix(1)>>
    /\ last.renamed = number_infix(1)
    /\ last.before = Idx(0)
    /\ rot.naming_state = Idx(1)

\* C5: initialize with Naming::Numbers sets the index state to Idx(m), m the
\* largest index that an existing rotated sibling carries in its name,
\* compressed siblings counted like uncompressed ones, and to Start when there
\* is no rotated sibling.
C5_DiscoversHighestIndex ==
    (cfg.naming = "Numbers" /\ last.op = "write" /\ last.init) =>
        last.discovered =
            IF last.siblings = {} THEN Start
            ELSE Idx(CHOOSE m \in {x.n : x \in last.siblings} :
                         \A x \in last.siblings : x.n <= m)

\* C6: when a rotation reaches its rename and _rCURRENT does not exist, the
\* rotation succeeds without renaming anything: no rotated file appears, the
\* naming state (the index) stays as it was, and, unless the open itself fails,
\* a fresh _rCURRENT is opened, which then receives the record of the call.
C6_MissingCurrentIsSuccess ==
    (last.op = "write" /\ (last.initMissing \/ last.missing)) =>
        /\ \A x \in Rotated([dir |-> dir, data |-> data]) :
               x \in last.siblings \/ [x EXCEPT !.gz = FALSE] \in last.siblings
        /\ last.initMissing =>
               /\ last.initRenamed = NoName
               /\ last.ok => last.before = last.discovered
               /\ last.fault \notin {"init_open", "init_metadata", "init_cleanup",
                                     "init_spawn"} => last.ok
               /\ last.fault \in {"init_metadata", "init_cleanup", "init_spawn"}
                      => CURRENT_INFIX \in DOMAIN dir
        /\ last.missing =>
               /\ last.renamed = NoName
               /\ last.after = last.before
               /\ last.fault # "rot_open" => last.reopened
        /\ (inner = "Active" /\ last.ok /\ (last.initMissing \/ last.reopened)) =>
               /\ CURRENT_INFIX \in DOMAIN dir
               /\ dir[CURRENT_INFIX] = file.ino
               /\ file.ino # last.old
               /\ data[file.ino].recs \o file.buf = <<Len(lens)>>

\* C6's case: a size rotation of a sink with Naming::Numbers found no _rCURRENT
\* (an earlier rotation had renamed it and failed to open the next one); the
\* index stayed 0 and a new _rCURRENT was opened.
C6_Witness ==
    /\ cfg.naming = "Numbers"
    /\ last.op = "write" /\ last.missing /\ last.reopened
    /\ last.before = Idx(0) /\ last.after = Idx(0)
    /\ produced = <<number_infix(0)>>
    /\ CURRENT_INFIX \in DOMAIN dir

\* C7: with Criterion::Size a write_buffer call rotates before it writes if and
\* only if the current_size it finds is strictly greater than max (with
\* AgeOrSize: whenever it is). After a completed rotation the new _rCURRENT
\* holds the record of the call and nothing else, and the record before it,
\* the one that brought the size above max, is the last one of the file the
\* old handle wrote to, which without I/O errors was within max before it.
C7_RotatesStrictlyAboveMax ==
    (cfg.criterion \in {"Size", "AgeOrSize"} /\ last.op = "write" /\ last.ok) =>
        /\ last.size > SizeLimit => last.attempted
        /\ (cfg.criterion = "Size" /\ last.attempted) => last.size > SizeLimit
        /\ (inner = "Active" /\ last.reopened) =>
               data[file.ino].recs \o file.buf = <<Len(lens)>>
        /\ (cfg.criterion = "Size" /\ last.reopened /\ last.old # 0) =>
               /\ data[last.old].recs # << >>
               /\ data[last.old].recs[Len(data[last.old].recs)] = Len(lens) - 1
               /\ Bytes(lens, data[last.old].recs) > SizeLimit
               /\ counts.faults = 0 =>
                      Bytes(lens, SubSeq(data[last.old].recs, 1,
                                         Len(data[last.old].recs) - 1)) <= SizeLimit

\* C7's case: a call found current_size just above max, one byte more than the
\* size that does not rotate, rotated and opened the new _rCURRENT.
C7_Witness ==
    /\ cfg.criterion = "Size"
    /\ last.op = "write" /\ last.ok /\ last.reopened
    /\ last.size = SizeLimit + 1
    /\ last.old # 0
    /\ Len(lens) >= 3
    /\ lens[Len(lens) - 2] = SizeLimit

C9_RestartPreservesContent ==
    (~cfg.append /\ last.op = "write" /\ last.init /\ last.ok
     /\ last.prev # NoContent /\ counts.faults = 0) =>
        /\ \E x \in Rotated([dir |-> dir, data |-> data]) :
               data[dir[x]].recs = last.prev.recs
        /\ inner = "Active" => data[file.ino].recs \o file.buf = <<Len(lens)>>

\* The records that went through the handle on the inode, in the order of their
\* arrival: those in the file and, for the writer's inode, those in its buffer.
C10_Content(ino) ==
    data[ino].recs \o (IF inner = "Active" /\ file.ino = ino THEN file.buf ELSE << >>)

\* C10: every record written so far went to exactly one file, whole and once;
\* every file holds a run of consecutive records in call order; a completed
\* rotation leaves the records written before it, those that were still in
\* the buffer included, in the file that was rotated, which ends with the
\* record written last before it, and the record of the call alone in the new
\* _rCURRENT. (Files are followed by their inodes, since the retention renames
\* nothing but removes and compresses rotated files.)
C10_RecordsKeepTheirFile ==
    /\ \A r \in 1..Len(lens) :
           Cardinality({p \in (1..Len(data)) \X (1..Len(lens)) :
                           /\ ~data[p[1]].gz
                           /\ p[2] <= Len(C10_Content(p[1]))
                           /\ C10_Content(p[1])[p[2]] = r}) = 1
    /\ \A ino \in 1..Len(data) :
           \A k \in 1..(Len(C10_Content(ino)) - 1) :
               C10_Content(ino)[k + 1] = C10_Content(ino)[k] + 1
    /\ (inner = "Active" /\ last.op = "write" /\ last.ok /\ last.reopened) =>
           /\ file.ino # last.old
           /\ C10_Content(file.ino) = <<Len(lens)>>
           /\ last.old # 0 =>
                  /\ data[last.old].recs # << >>
                  /\ data[last.old].recs[Len(data[last.old].recs)] = Len(lens) - 1
                  /\ \A k \in 1..Len(last.buf) :
                         \E j \in 1..Len(data[last.old].recs) :
                             data[last.old].recs[j] = last.buf[k]
                  /\ (~cfg.cleanup.do /\ last.renamed # NoName) =>
                         /\ last.renamed \in DOMAIN dir
                         /\ dir[last.renamed] = last.old

\* C10's case: a rotation was completed while two records were still in the
\* buffer of the old writer; they are in the rotated file, the record of the
\* call is in the new _rCURRENT.
C10_Witness ==
    /\ cfg.buffered /\ ~cfg.cleanup.do
    /\ inner = "Active" /\ last.op = "write" /\ last.ok /\ last.reopened
    /\ Len(last.buf) = 2
    /\ last.renamed \in DOMAIN dir
    /\ data[dir[last.renamed]].recs = last.buf
    /\ CURRENT_INFIX \in DOMAIN dir
    /\ dir[CURRENT_INFIX] = file.ino
    /\ C10_Content(file.ino) = <<Len(lens)>>

\* The record is in some file of the directory d with the contents dt, as it
\* is or compressed.
C11_OnDisk(d, dt, rec) ==
    \E x \in DOMAIN d : \E k \in 1..Len(dt[d[x]].recs) : dt[d[x]].recs[k] = rec

\* The records that were accepted and are not in the buffer of the writer: a
\* flush (or a write past the buffer) has handed them to the file.
C11_Flushed ==
    {rec \in 1..Len(lens) :
        ~(inner = "Active" /\ \E k \in 1..Len(file.buf) : file.buf[k] = rec)}

C13_RetentionKeepsCurrent ==
    /\ [](CURRENT_INFIX \in DOMAIN dir =>
            /\ CURRENT_INFIX \in DOMAIN remove_or_compress_too_old_logfiles_impl(
                                            cfg.cleanup, [dir |-> dir, data |-> data]).fs.dir
            /\ remove_or_compress_too_old_logfiles_impl(
                   cfg.cleanup, [dir |-> dir, data |-> data]).fs.dir[CURRENT_INFIX]
                   = dir[CURRENT_INFIX]
            /\ remove_or_compress_too_old_logfiles_impl(
                   cfg.cleanup, [dir |-> dir, data |-> data]).fs.data[dir[CURRENT_INFIX]]
                   = data[dir[CURRENT_INFIX]])
    /\ []((cfg.cleanup.do /\ inner = "Active" /\ last.op = "write" /\ last.ok
           /\ (last.reopened \/ (last.init /\ ~last.attempted)))
              => (CURRENT_INFIX \in DOMAIN dir /\ dir[CURRENT_INFIX] = file.ino))
    /\ [][(worker.pc = "pass" /\ worker' # worker /\ CURRENT_INFIX \in DOMAIN dir)
              => /\ CURRENT_INFIX \in DOMAIN dir'
                 /\ dir'[CURRENT_INFIX] = dir[CURRENT_INFIX]
                 /\ data'[dir[CURRENT_INFIX]] = data[dir[CURRENT_INFIX]]]_vars

\* C13's case: the cleanup thread is in the middle of a pass that has already
\* compressed a file, while _rCURRENT exists and holds records.
C13_Witness ==
    /\ worker.pc = "pass" /\ worker.index >= 1
    /\ \E x \in Rotated([dir |-> dir, data |-> data]) : x.gz
    /\ CURRENT_INFIX \in DOMAIN dir
    /\ data[dir[CURRENT_INFIX]].recs # << >>


\* The first record of a listed file, 0 for a file without records: records
\* are numbered in the order they were written, so a file that was started
\* later has the greater first record.
C14_First(f) == IF f.content.recs = << >> THEN 0 ELSE f.content.recs[1]

C14_NewestFirst(files) ==
    \A i \in 1..Len(files) : \A j \in 1..Len(files) :
        (i < j /\ C14_First(files[i]) # 0 /\ C14_First(files[j]) # 0)
            => C14_First(files[i]) > C14_First(files[j])

\* What the pass has done with the listed file f at position index (from 0),
\* seen in the directory d with the inodes dt after it.
C14_Done(d, dt, f, index) ==
    IF index < cfg.cleanup.L
    THEN f.name \in DOMAIN d /\ dt[d[f.name]] = f.content
    ELSE IF index < cfg.cleanup.L + cfg.cleanup.Z
    THEN /\ set_extension_log_gz(f.name) \in DOMAIN d
         /\ dt[d[set_extension_log_gz(f.name)]] = [gz |-> TRUE, recs |-> f.content.recs]
         /\ ~f.name.gz => f.name \notin DOMAIN d
    ELSE f.name \notin DOMAIN d

\* C14: a retention pass with limits (L, Z) works on a list of all rotated
\* siblings that runs from the newest to the oldest; it leaves the files at
\* positions below L as they are, leaves a compressed copy in place of those at
\* positions from L to below L+Z, and removes those from position L+Z on.  For
\* the pass run inline this is seen after the call, for the pass of the cleanup
\* thread at each of its steps.
C14_RetentionByPosition ==
    /\ [](last.listed.ran =>
             /\ C14_NewestFirst(last.listed.files)
             /\ \A k \in 1..Len(last.listed.files) :
                    C14_Done(dir, data, last.listed.files[k], k - 1))
    /\ []((worker.pc = "pass" /\ worker.index = 0) =>
             C14_NewestFirst(ListedFiles([dir |-> dir, data |-> data], worker.list)))
    /\ [][(worker.pc = "pass" /\ worker' # worker) =>
              C14_Done(dir', data',
                       ListedFiles([dir |-> dir, data |-> data],
                                   worker.list)[worker.index + 1],
                       worker.index)]_vars

C15_Logs(d, dt) == {x \in Rotated([dir |-> d, data |-> dt]) : ~x.gz}

C15_Compressed(d, dt) == {x \in Rotated([dir |-> d, data |-> dt]) : x.gz}

\* C15: with background cleanup and limits (L, Z), when shutdown returns, that
\* is when the join of the cleanup thread completes, there are at most L
\* uncompressed rotated files and at most Z compressed ones, and exactly L and
\* Z if the sink has rotated at least L+Z times.
C15_CountsAfterShutdown ==
    [][(cfg.cleanup.do /\ cfg.bg /\ mainpc \in {"joining", "dropping"} /\ mainpc' = "ready")
          => /\ Cardinality(C15_Logs(dir', data')) <= cfg.cleanup.L
             /\ Cardinality(C15_Compressed(dir', data')) <= cfg.cleanup.Z
             /\ Len(produced) >= cfg.cleanup.L + cfg.cleanup.Z
                    => /\ Cardinality(C15_Logs(dir', data')) = cfg.cleanup.L
                       /\ Cardinality(C15_Compressed(dir', data')) = cfg.cleanup.Z]_vars

\* A call has initialized a sink with Naming::Timestamps, append = false and
\* Cleanup::KeepLogFiles(N), and up to now files were rotated at
\* initializations only.
C16_Initialized ==
    /\ cfg.naming = "Timestamps" /\ ~cfg.append
    /\ cfg.cleanup.do /\ cfg.cleanup.Z = 0
    /\ last.op = "write" /\ last.init /\ last.ok
    /\ cuts = {} /\ counts.faults = 0

\* C16: each such initialization renames the previous _rCURRENT to a name no
\* rotated file had and runs one retention pass inline on a list that runs from
\* the newest file to the oldest; from the initialization after the N+1-th on,
\* exactly N rotated files exist afterwards, the N first of that list.
C16_RestartsKeepNewest ==
    C16_Initialized =>
        /\ ~last.initMissing =>
               /\ last.initRenamed # NoName
               /\ last.initRenamed \notin last.siblings
               /\ last.initRenamed \in DOMAIN dir
               /\ data[dir[last.initRenamed]] = last.prev
        /\ last.listed.ran
        /\ \A i \in 1..Len(last.listed.files) : \A j \in 1..Len(last.listed.files) :
               i < j => C14_First(last.listed.files[i]) > C14_First(last.listed.files[j])
        /\ \A k \in 1..Len(last.listed.files) :
               last.listed.files[k].name \in DOMAIN dir <=> k <= cfg.cleanup.L
        /\ counts.sinks > cfg.cleanup.L + 1
               => Cardinality(Rotated([dir |-> dir, data |-> data])) = cfg.cleanup.L

C16_Witness ==
    /\ C16_Initialized
    /\ counts.sinks > cfg.cleanup.L + 2
    /\ now = 0
    /\ Len(last.listed.files) = cfg.cleanup.L + 1
    /\ last.initRenamed.rs >= 0

\* C17: a call of shutdown that follows a call of shutdown, with no write
\* between them, sends nothing to the cleanup thread, waits for no join and
\* leaves the files, the writer and the rotation state as they are; so does a
\* call of shutdown on a State that is still Initial.
C17_ShutdownIdempotent ==
    [][(/\ counts'.shutdowns = counts.shutdowns + 1
        /\ counts.shutdowns >= 1 \/ inner = "Initial")
           => UNCHANGED <<dir, data, inner, rot, file, chan, worker, mainpc>>]_vars

C17_Witness ==
    /\ counts.shutdowns = 2
    /\ cfg.cleanup.do /\ cfg.bg
    /\ inner = "Active" /\ ~rot.handle
    /\ worker.pc = "exited" /\ mainpc = "ready"
    /\ produced # << >>

\* C18: a shutdown that waits for the cleanup thread returns: the thread takes
\* the messages in the order they were sent, runs a pass for every Act sent
\* before Die, ends when it takes Die, and then the join completes with no
\* message left.
C18_ShutdownReturns ==
    /\ (mainpc \in {"joining", "dropping"}) ~> (mainpc = "ready")
    /\ [][(worker.pc = "idle" /\ worker' # worker)
              => /\ chan # << >> /\ chan' = Tail(chan)
                 /\ IF Head(chan) = "Die" THEN worker'.pc = "exited"
                    ELSE /\ worker'.pc = "pass"
                         /\ worker'.list = list_of_log_and_compressed_files(
                                               [dir |-> dir, data |-> data])]_vars
    /\ [][(mainpc \in {"joining", "dropping"} /\ mainpc' = "ready")
              => (chan = << >> /\ worker.pc = "exited")]_vars

C18_Witness ==
    /\ mainpc = "joining"
    /\ worker.pc = "pass"
    /\ chan = <<"Act", "Die">>

\* What a shutdown that returns in this step has done to an Active sink: no
\* cleanup thread is left running, no message is left, and what the writer
\* had buffered is in its file; no name has changed.
C19_Effect ==
    /\ worker.pc \in {"none", "exited"}
    /\ chan = << >>
    /\ ~rot.handle
    /\ dir' = dir
    /\ data' = [data EXCEPT ![file.ino].recs = @ \o file.buf]

\* C19: the drop of a sink that has a cleanup thread sends Die to it, and
\* when the drop completes it has done what a completed shutdown has done.
C19_DropShutsDown ==
    /\ [][(mainpc = "ready" /\ mainpc' = "dropping")
              => (rot.handle /\ chan' = Append(chan, "Die") /\ ~rot'.handle)]_vars
    /\ [][(inner = "Active" /\ counts'.sinks = counts.sinks + 1) => C19_Effect]_vars
    /\ [][(inner = "Active" /\ counts'.shutdowns = counts.shutdowns + 1)
              => C19_Effect]_vars

C19_Witness ==
    /\ cfg.cleanup.do /\ cfg.bg /\ cfg.buffered
    /\ counts.sinks = 2 /\ inner = "Initial" /\ mainpc = "ready"
    /\ worker = NoWorker
    /\ Len(lens) = 3 /\ lens[3] = 1
    /\ C11_OnDisk(dir, data, 3)
    /\ produced = << >>
    /\ \E x \in Rotated([dir |-> dir, data |-> data]) : x.gz

\* C20: a write to a sink that is Active initializes nothing: its rotation
\* check starts from the rotation state as it was, it renames nothing and lists
\* nothing for the sake of initialization, and it starts no thread; if no
\* rotation is due either, the call opens and creates no file, changes no name
\* and sends nothing, and all it does to the rotation state is to add the
\* length of the record to current_size.
C20_InitializeOnce ==
    /\ [][(inner = "Active" /\ Len(lens') = Len(lens) + 1)
              => /\ ~last'.init
                 /\ last'.initRenamed = NoName
                 /\ last'.before = rot.naming_state
                 /\ last'.size = rot.current_size
                 /\ ~last'.attempted => ~last'.listed.ran
                 /\ worker' = worker
                 /\ rot'.handle = rot.handle]_vars
    /\ [][(inner = "Active" /\ Len(lens') = Len(lens) + 1 /\ ~rotation_necessary(rot, now))
              => /\ dir' = dir
                 /\ DOMAIN data' = DOMAIN data
                 /\ file'.ino = file.ino
                 /\ chan' = chan
                 /\ produced' = produced
                 /\ rot' = [rot EXCEPT !.current_size =
                                IF cfg.criterion = "Age" THEN @
                                ELSE @ + lens'[Len(lens')]]]_vars

C20_Witness ==
    /\ cfg.cleanup.do /\ cfg.bg
    /\ inner = "Active" /\ rot.handle
    /\ last.op = "write" /\ last.ok /\ ~last.init /\ ~last.attempted
    /\ produced # << >>
    /\ last.size = 1 /\ rot.current_size = 2

C22_RetentionFailureNeverFailsWrite ==
    /\ [][(counts'.faults = counts.faults + 1
           /\ last'.fault \in {"init_cleanup", "rot_cleanup"})
              => /\ last'.ok
                 /\ inner' = "Active"
                 /\ Len(lens') = Len(lens) + 1
                 /\ \E k \in 1..Len(data'[file'.ino].recs \o file'.buf) :
                        (data'[file'.ino].recs \o file'.buf)[k] = Len(lens')]_vars
    /\ [][(counts'.faults = counts.faults + 1 /\ worker' # worker)
              => /\ worker'.pc = "idle"
                 /\ UNCHANGED <<dir, data, inner, rot, file, chan, mainpc, lens>>]_vars
\* C23: when the format function returns an error for a record (and the writer
\* itself works), write_buffered reports it on the diagnostic channel and drops
\* the record: the writer gets no byte for it, neither partial output nor a
\* line terminator, and the call returns Ok.
C23_FormatErrorDropsRecord ==
    [][(wb'.calls = wb.calls + 1 /\ ~wb'.fmt.ok /\ wb'.w_ok)
       => /\ wb'.diag = Append(wb.diag, "Format")
          /\ wb'.w = wb.w
          /\ wb'.result = "Ok"]_vars

\* The day number a sink saw at its check before r, or the one the criterion
\* was built with.
C24_DayBefore(r) ==
    IF r.n = 1 THEN now_as_year_month_day_number(0, newday.utc_offset)
    ELSE (CHOOSE q \in newday.results : q.sink = r.sink /\ q.n = r.n - 1).day

\* C24: when several sinks share one EveryNewDay value and the day number at
\* the configured offset changes, every one of them rotates on its first write
\* after the change: a check that sees another day number than the sink's
\* check before it returns true, under every interleaving of the sinks' checks.
C24_EverySharingSinkRotates ==
    \A r \in newday.results : r.day # C24_DayBefore(r) => r.rotate

\* The checks made so far that saw day number day.
C30_ChecksOf(day) == {r \in newday.results : r.day = day}

\* C30: the checks of sinks that share one day-number counter are race-free:
\* for a day change that every sink has checked, the number of checks that
\* returned true is the same under every interleaving of their load and store
\* steps, namely the one that a compare-and-swap gives: exactly one.
C30_OneTruePerDayChange ==
    \A r \in newday.results :
        (/\ r.day # now_as_year_month_day_number(0, newday.utc_offset)
         /\ \A s \in 1..SharingSinks : \E q \in C30_ChecksOf(r.day) : q.sink = s)
        => Cardinality({q \in C30_ChecksOf(r.day) : q.rotate}) = 1

\* C25: with Age::Day, Hour, Minute or Second rotation is necessary exactly
\* when the local clock has entered a new day, hour, minute or second since the
\* file was created, whatever the local utc offset is; so a write within the
\* period of the file's creation triggers no rotation.
C25_AgeRotationExactlyOnNewPeriod ==
    agecheck.result # "none"
    => (agecheck.result = "rotate"
        <=> AgeFields(agecheck.age, to_offset(agecheck.created, agecheck.local))
            # AgeFields(agecheck.age, to_offset(agecheck.now, agecheck.local)))

\* The instant that the first read of the value returned.
C27_Captured == dnow.reads[1].clock

\* C27: a DeferredNow captures the clock at most once: a value that was never
\* read holds no instant; the first now() or format() stores the instant of the
\* clock at that call, and every later now() returns that same instant and
\* every later format() its formatting, however far the clock has advanced.
C27_CapturedAtMostOnce ==
    /\ dnow.reads = << >> <=> ~dnow.opt.some
    /\ dnow.reads # << >> => dnow.opt.at = C27_Captured
    /\ \A i \in 1..Len(dnow.reads) :
          dnow.reads[i].value = IF dnow.reads[i].op = "now" THEN C27_Captured
                                ELSE FormatInstant(C27_Captured)

\* now() at second 1, and after the clock advanced a format() and a now()
C27_Witness ==
    /\ Len(dnow.reads) = 3
    /\ dnow.reads[1].op = "now" /\ dnow.reads[1].clock = 1
    /\ dnow.reads[2].op = "format" /\ dnow.reads[2].clock = 3
    /\ dnow.reads[3].op = "now" /\ dnow.reads[3].clock = 4

\* The rotated files, uncompressed or compressed, of a directory.
C28_Rotated(d) == Cardinality(Rotated([dir |-> d, data |-> data]))

\* The files that cleanup removes in a step: the one of the entry the cleanup
\* thread works on, or those of the passes that a write runs inline.
C28_Removed ==
    IF worker.pc = "pass" /\ worker' # worker
    THEN IF worker.index >= cfg.cleanup.L + cfg.cleanup.Z THEN 1 ELSE 0
    ELSE last'.removed

\* C28: for every rotation configuration and after any sequence of writes (with
\* no I/O error), the number of rotated files, uncompressed or compressed, plus
\* the active _rCURRENT equals the number of rotations performed plus 1 minus
\* the number of files that cleanup removed: an active sink has its _rCURRENT,
\* and every step changes the number of rotated files by the rotations it
\* performs less the files its cleanup removes.
C28_FilesCountRotationsLessRemovals ==
    /\ []((inner = "Active" /\ counts.faults = 0) => CURRENT_INFIX \in DOMAIN dir)
    /\ [][(counts'.faults = 0 /\ dir' # dir)
          => C28_Rotated(dir') - C28_Rotated(dir)
             = (Len(produced') - Len(produced)) - C28_Removed]_vars

C31_FailedRotationStaysPending ==
    [][(pend'.writes = pend.writes + 1)
       => /\ pend'.failed => pend'.target = pend.file
          /\ pend.failed => pend'.attempted]_vars

\* The same without Age::EveryNewDay.
C31_PendingUnlessEveryNewDay ==
    [][(pend'.writes = pend.writes + 1 /\ pend.criterion.age # "EveryNewDay")
       => /\ pend'.failed => pend'.target = pend.file
          /\ pend.failed => pend'.attempted]_vars

\* C32: a log call made from inside a format function, while the thread-local
\* buffer is borrowed, is formatted into a temporary buffer and written to the
\* sink completely, before the record of the outer call; it leaves the bytes
\* the outer format function has written as they are, the outer call writes
\* exactly its own bytes after it, and after the outer call the thread-local
\* buffer is empty.
C32_InnerThenOuter ==
    /\ [](wb.buffer = wb.outer)
    /\ [][(wb.pc = "formatting" /\ wb'.calls = wb.calls + 1 /\ wb'.borrowed)
          => /\ wb'.buffer = wb.buffer
             /\ wb'.pc = "formatting"
             /\ wb'.w_ok => wb'.w = (wb.w \o wb'.fmt.out) \o <<"\n">>]_vars
    /\ [][(wb.pc = "formatting" /\ wb'.calls = wb.calls + 1 /\ ~wb'.borrowed)
          => /\ wb'.buffer = << >>
             /\ wb'.pc = "idle"
             /\ wb'.w_ok => wb'.w = ((wb.w \o wb.outer) \o wb'.fmt.out) \o <<"\n">>]_vars

\* C32's case: the outer format function wrote "a", made a log call whose
\* record is "b", and wrote "a" again; the sink holds the inner line before the
\* outer one, and the thread-local buffer is empty.
C32_Witness ==
    /\ wb.pc = "idle" /\ wb.calls = 2 /\ ~wb.borrowed
    /\ wb.w = <<"b", "\n", "a", "a", "\n">>
    /\ wb.buffer = << >>

\* The directory after a retention pass on fs, if the pass succeeds.
C33_Pass(fs) == remove_or_compress_too_old_logfiles_impl(cfg.cleanup, fs)

C33_Again(once) == once.ok => (C33_Pass(once.fs).ok /\ C33_Pass(once.fs).fs = once.fs)

\* C33: a retention pass is idempotent on the directory: on every directory
\* the sink can leave, a pass run right after a pass, with no rotation between
\* them, changes no file, so the passes for several queued Act messages leave
\* the files that the first of them leaves.
C33_RetentionIdempotent ==
    C33_Again(C33_Pass([dir |-> dir, data |-> data]))

\* C33's case: the cleanup thread has done a pass that compressed a file after
\* two rotations, and the Act of the second rotation is still queued: the pass
\* it will run finds nothing to do.
C33_Witness ==
    /\ cfg.cleanup.do /\ cfg.bg
    /\ worker.pc = "idle" /\ chan = <<"Act">>
    /\ Len(produced) >= 2
    /\ \E x \in Rotated([dir |-> dir, data |-> data]) : x.gz
    /\ C33_Pass([dir |-> dir, data |-> data]).fs = [dir |-> dir, data |-> data]

\* The records of the file named _rCURRENT.
C34_Current == data[dir[CURRENT_INFIX]].recs

\* C34: with Criterion::Size(max) and no I/O error, the current_size a
\* write_buffer call has when it comes to write the bytes of its record is at
\* most max, and so the file _rCURRENT is never longer than max plus the
\* length of the last record written to it.
C34_SizeWithinMaxBeforeWrite ==
    /\ [][(cfg.criterion = "Size" /\ counts'.faults = 0
           /\ Len(lens') = Len(lens) + 1)
          => rot'.current_size - lens'[Len(lens')] <= SizeLimit]_vars
    /\ []((cfg.criterion = "Size" /\ counts.faults = 0
           /\ CURRENT_INFIX \in DOMAIN dir /\ C34_Current # << >>)
          => Bytes(lens, C34_Current)
                 <= SizeLimit + lens[C34_Current[Len(C34_Current)]])

\* C34's case: a call found current_size equal to max, did not rotate, and
\* its record took _rCURRENT above max.
C34_Witness ==
    /\ cfg.criterion = "Size" /\ counts.faults = 0 /\ inner = "Active"
    /\ last.op = "write" /\ last.ok /\ ~last.attempted
    /\ last.size = SizeLimit
    /\ rot.current_size > SizeLimit
    /\ CURRENT_INFIX \in DOMAIN dir
    /\ Bytes(lens, C34_Current) = rot.current_size

\* The I/O errors of initialize: the rename of the old _rCURRENT, the open, the
\* read of the metadata, the inline retention pass, the spawn of the thread.
C35_InitFaults ==
    {"init_rename", "init_open", "init_metadata", "init_cleanup", "init_spawn"}

\* C35: when initialize fails at any of its steps, the sink stays Initial, the
\* write_buffer call returns the error and writes no record, no cleanup thread
\* is left running, and the next write_buffer call runs initialize again from
\* its beginning (and, with no error and no panic then, makes the sink Active
\* and writes its record).
C35_FailedInitializeLeavesInitial ==
    /\ [][(inner = "Initial" /\ counts'.faults = counts.faults + 1
           /\ last'.fault \in C35_InitFaults)
          => /\ inner' = "Initial"
             /\ last'.init /\ ~last'.ok
             /\ lens' = lens
             /\ rot' = NoRot /\ file' = NoWriter
             /\ worker' = NoWorker /\ chan' = << >>]_vars
    /\ [][(inner = "Initial" /\ last.fault \in C35_InitFaults
           /\ <<last, counts.faults>>' # <<last, counts.faults>>)
          => /\ last'.init
             /\ last'.discovered =
                    IF cfg.naming = "Numbers"
                    THEN get_highest_rotate_idx([dir |-> dir, data |-> data])
                    ELSE CreatedAt
             /\ (last'.fault = "none" /\ mainpc' # "panicked")
                    => (inner' = "Active" /\ last'.ok
                        /\ lens' = Append(lens, lens'[Len(lens')]))]_vars

\* C35's case: the spawn of the cleanup thread failed in the first call of the
\* first sink, after the retention pass at startup; the sink is Initial, no
\* record is written and no thread exists.
C35_Witness ==
    /\ inner = "Initial" /\ last.op = "write" /\ last.init /\ ~last.ok
    /\ last.fault = "init_spawn" /\ last.listed.ran
    /\ worker = NoWorker /\ lens = << >>

\* C35's other case: the call after the failed one initialized the sink, which
\* now has its cleanup thread, and wrote the first record.
C35_WitnessRetried ==
    /\ inner = "Active" /\ last.op = "write" /\ last.init /\ last.ok
    /\ counts.faults = 1 /\ counts.sinks = 1 /\ Len(lens) = 1
    /\ worker.pc = "idle"

\* C36: after shutdown has returned, the sink still takes writes and still
\* rotates; the handle of the cleanup thread is gone, so a write that rotates
\* runs the retention pass itself, inline, and no message is sent to the
\* thread that has ended: a write leaves the channel and the thread as they
\* are, and the channel stays empty.
C36_InlineRetentionAfterShutdown ==
    /\ []((worker.pc = "exited" /\ mainpc = "ready")
              => (inner = "Active" /\ ~rot.handle /\ chan = << >>))
    /\ [][(worker.pc = "exited" /\ mainpc = "ready" /\ last' # last)
          => /\ chan' = chan /\ worker' = worker
             /\ inner' = "Active"
             /\ (last'.fault = "none" /\ mainpc' = "ready")
                    => (last'.ok /\ lens' = Append(lens, lens'[Len(lens')]))
             /\ last'.reopened => last'.listed.ran]_vars

\* C36's case: after the cleanup thread has ended with a shutdown, a write has
\* rotated, run the retention pass inline and written its record.
C36_Witness ==
    /\ worker.pc = "exited" /\ mainpc = "ready" /\ inner = "Active"
    /\ last.op = "write" /\ last.ok /\ last.reopened /\ last.renamed # NoName
    /\ last.listed.ran /\ Len(last.listed.files) >= 1
    /\ counts.shutdowns = 0
    /\ chan = << >>

\* The first record of the file named x in the directory d with the inodes dt
\* (0 for a file without records): records are numbered as they are written,
\* so of two rotated files the one rotated later has the greater first record.
C37_First(d, dt, x) == IF dt[d[x]].recs = << >> THEN 0 ELSE dt[d[x]].recs[1]

\* How many rotated files of the directory were rotated after the one named x.
C37_Newer(d, dt, x) ==
    Cardinality({y \in Rotated([dir |-> d, data |-> dt]) :
                    C37_First(d, dt, y) > C37_First(d, dt, x)})

\* The step of the cleanup thread on the entry e of its list, which exists.
C37_StepOn(e) ==
    /\ e \in DOMAIN dir
    /\ EntryActs(e, worker.index, cfg.cleanup.L, cfg.cleanup.Z)
          => C37_Newer(dir, data, e) >= cfg.cleanup.L
    /\ worker.index >= cfg.cleanup.L + cfg.cleanup.Z
          => C37_Newer(dir, data, e) >= cfg.cleanup.L + cfg.cleanup.Z

\* C37: however the rotations of the writing thread and the steps of the
\* cleanup thread interleave (the list of the thread may be stale when it
\* acts), with no I/O error, a step of a pass that compresses or removes a
\* rotated file finds at least L files in the directory that were rotated
\* after it, and a step that removes one finds at least L+Z such files.
C37_PassSparesMostRecent ==
    [][(worker.pc = "pass" /\ worker' # worker /\ counts.faults = 0
        /\ counts' = counts /\ dir' # dir)
       => C37_StepOn(worker.list[worker.index + 1])]_vars

\* The same for the first sink on the directory with Naming::Numbers.
C37_FirstSinkNumbers ==
    [][(worker.pc = "pass" /\ worker' # worker /\ counts.faults = 0
        /\ counts' = counts /\ dir' # dir
        /\ counts.sinks = 1 /\ cfg.naming = "Numbers")
       => C37_StepOn(worker.list[worker.index + 1])]_vars

\* What C38 demands of a write_buffer call of an Active sink whose rotation
\* failed: naming state, created_at and writer as before the call, the size
\* grown by the record only, and no file renamed.
C38_AsBefore ==
    /\ rot'.naming_state = rot.naming_state
    /\ rot'.created_at = rot.created_at
    /\ rot'.current_size = AddWritten(rot, lens'[Len(lens')]).current_size
    /\ file'.ino = file.ino
    /\ last'.renamed = NoName
    /\ Rotated([dir |-> dir', data |-> data']) = Rotated([dir |-> dir, data |-> data])

\* C38: a rotation is all or nothing: when a step of it fails, be it the
\* rename or the open of the new _rCURRENT after the rename, then index state,
\* created_at, current_size and the writer are as before the attempt, and no
\* file has been renamed.
C38_RotationAllOrNothing ==
    [][(inner = "Active" /\ last' # last /\ lens' # lens
        /\ last'.attempted /\ ~last'.reopened
        /\ last'.fault \in {"rot_rename", "rot_open"})
       => C38_AsBefore]_vars

\* The same for a rotation whose rename fails.
C38_FailedRenameChangesNothing ==
    [][(inner = "Active" /\ last' # last /\ lens' # lens
        /\ last'.attempted /\ ~last'.reopened
        /\ last'.fault = "rot_rename")
       => C38_AsBefore]_vars

\* The pass compresses the file at position k of its list (positions from 1).
C39_Compresses(list, k) ==
    /\ k - 1 >= cfg.cleanup.L
    /\ k - 1 < cfg.cleanup.L + cfg.cleanup.Z
    /\ ~list[k].gz

\* The names of the files an inline pass has listed.
C39_Listed == {last.listed.files[k].name : k \in 1..Len(last.listed.files)}

\* C39: a retention pass never overwrites an existing compressed file: when it
\* compresses a rotated file, no file with the name of the archive exists.  For
\* a pass run inline the files that exist are those it has listed, for the pass
\* of the cleanup thread those of the directory at the step.
C39_CompressionNeverOverwrites ==
    /\ []((last.listed.ran /\ last.fault \notin {"init_cleanup", "rot_cleanup"})
          => \A k \in 1..Len(last.listed.files) :
                 C39_Compresses([j \in 1..Len(last.listed.files) |->
                                     last.listed.files[j].name], k)
                 => set_extension_log_gz(last.listed.files[k].name) \notin C39_Listed)
    /\ [][(worker.pc = "pass" /\ worker' # worker /\ counts' = counts
           /\ worker.list[worker.index + 1] \in DOMAIN dir
           /\ C39_Compresses(worker.list, worker.index + 1))
          => set_extension_log_gz(worker.list[worker.index + 1]) \notin DOMAIN dir]_vars

\* C40: rotate_output_file_to_date never panics: whatever files the rotations
\* and retention passes have left, compressed .restart-NNNN siblings of the
\* timestamp included, the restart number of the highest sibling is found and
\* parsed, so no write_buffer call ends in a panic.
C40_RotateToDateNeverPanics ==
    mainpc # "panicked"

====
